---- MODULE Spec2Model ----
(***************************************************************************)
(* A model of the chess rules library: the move geometry                   *)
(* (board/board_pos.rs, moves/move_patterns.rs), check detection, legal    *)
(* move generation and move application (moves.rs) and the game state      *)
(* machine ChessGame (chess.rs).                                           *)
(*                                                                         *)
(* A square is the index file * 8 + rank, the value util.rs gives a        *)
(* BoardPosition as U6.  A BoardBitmap is modelled as the set of squares   *)
(* whose bit is set.  Option::None of a piece is NoPiece, of a position    *)
(* NoPos, of a promotion type "None".                                      *)
(***************************************************************************)
EXTENDS Integers, Sequences, FiniteSets, TLC

VARIABLES
    game_status,        \* ChessGame.game_status
    active_player,      \* ChessGame.active_player
    board,              \* ChessGame.board
    available_moves,    \* ChessGame.available_moves, the legal-move cache
    castling_rights,    \* ChessGame.castling_rights, per player
    en_passant_target,  \* ChessGame.en_passant_target
    initial_board,      \* history: the board the game was made from
    fen_string,         \* the string Board::from_fen_string is given (FenSpec)
    iter,               \* the fields of a BoardLineIterator (IterSpec)
    yielded,            \* history: what the iterator has yielded (IterSpec)
    last_call,          \* history: the last call that returned Ok
    last_move,          \* history: the ChessMove of the last do_move that returned Ok
    prev,               \* history: the game right before the last call that returned Ok
                        \* (MovesSpec gives the three its own reading, stated there)
    moves               \* history: the number of do_move calls that returned Ok

vars == <<game_status, active_player, board, available_moves, castling_rights,
          en_passant_target, initial_board, fen_string, iter, yielded, last_call,
          last_move, prev, moves>>

\* The number of moves a game of the model commits at most.
MaxMoves == 2

-----------------------------------------------------------------------------
(* board/piece.rs, board/board_pos.rs, board/mod.rs *)

White == "White"
Black == "Black"
PlayerColor == {White, Black}

PieceType == {"Pawn", "Knight", "Bishop", "Rook", "Queen", "King"}

Piece(piece_type, player) == [piece_type |-> piece_type, player |-> player]

NoPiece == [piece_type |-> "None", player |-> "None"]

other_player(player) == IF player = White THEN Black ELSE White

Squares == 0 .. 63

NoPos == -1

Pos(file, rank) == file * 8 + rank

File(pos) == pos \div 8

Rank(pos) == pos % 8

\* BoardPosition::add: None when the sum leaves 0..7 on either axis.
add(pos, offset) ==
    LET file == File(pos) + offset[1]
        rank == Rank(pos) + offset[2]
    IN  IF file < 0 \/ rank < 0
        THEN NoPos
        ELSE IF file > 7 \/ rank > 7 THEN NoPos ELSE Pos(file, rank)

EMPTY_BOARD == [pos \in Squares |-> NoPiece]

get_piece(b, pos) == b[pos]

set_piece(b, pos, piece) == [b EXCEPT ![pos] = piece]

get_occupant_state(b, pos, player) ==
    IF get_piece(b, pos) = NoPiece
    THEN "Empty"
    ELSE IF get_piece(b, pos).player = player THEN "Friendly" ELSE "Enemy"

\* Piece::from_char: the piece of a FEN letter, NoPiece (None) for any other
\* character.  A character is a string of length one.
from_char(ch) ==
    CASE ch = "P" -> Piece("Pawn", White)
      [] ch = "N" -> Piece("Knight", White)
      [] ch = "B" -> Piece("Bishop", White)
      [] ch = "R" -> Piece("Rook", White)
      [] ch = "Q" -> Piece("Queen", White)
      [] ch = "K" -> Piece("King", White)
      [] ch = "p" -> Piece("Pawn", Black)
      [] ch = "n" -> Piece("Knight", Black)
      [] ch = "b" -> Piece("Bishop", Black)
      [] ch = "r" -> Piece("Rook", Black)
      [] ch = "q" -> Piece("Queen", Black)
      [] ch = "k" -> Piece("King", Black)
      [] OTHER -> NoPiece

\* char::to_digit(10): the value of a decimal digit, -1 (None) for any other
\* character.
to_digit(ch) ==
    CASE ch = "0" -> 0 [] ch = "1" -> 1 [] ch = "2" -> 2 [] ch = "3" -> 3
      [] ch = "4" -> 4 [] ch = "5" -> 5 [] ch = "6" -> 6 [] ch = "7" -> 7
      [] ch = "8" -> 8 [] ch = "9" -> 9
      [] OTHER -> -1

\* The Option<Board> that from_fen_string returns.
NoBoard == [some |-> FALSE, board |-> <<>>]

SomeBoard(b) == [some |-> TRUE, board |-> b]

\* The for loop of from_fen_string from the i-th character on, and the test
\* that follows it.
RECURSIVE from_fen_loop(_, _, _, _, _)
from_fen_loop(string, i, b, file, rank) ==
    IF i > Len(string)
    THEN IF file # 8 \/ rank # 7 THEN NoBoard ELSE SomeBoard(b)
    ELSE LET ch == string[i] IN
         IF from_char(ch) # NoPiece
         THEN IF file >= 8 \/ rank >= 8
              THEN NoBoard
              ELSE from_fen_loop(string, i + 1,
                                 set_piece(b, Pos(file, rank), from_char(ch)),
                                 file + 1, rank)
         ELSE IF to_digit(ch) # -1
         THEN IF to_digit(ch) + file > 8
              THEN NoBoard
              ELSE from_fen_loop(string, i + 1, b, file + to_digit(ch), rank)
         ELSE IF ch = "/"
         THEN IF file # 8 \/ rank > 6
              THEN NoBoard
              ELSE from_fen_loop(string, i + 1, b, 0, rank + 1)
         ELSE NoBoard

\* Board::from_fen_string.
from_fen_string(string) == from_fen_loop(string, 1, EMPTY_BOARD, 0, 0)

-----------------------------------------------------------------------------
(* moves/move_patterns.rs *)

BoardLine(offset, max_length, capture_type) ==
    [offset |-> offset, max_length |-> max_length, capture_type |-> capture_type]

WHITE_PAWN_BOARD_LINES ==
    << BoardLine(<<0, 1>>, 1, "MoveOnly"),
       BoardLine(<<1, 1>>, 1, "CaptureOnly"),
       BoardLine(<<-1, 1>>, 1, "CaptureOnly") >>

BLACK_PAWN_BOARD_LINES ==
    << BoardLine(<<0, -1>>, 1, "MoveOnly"),
       BoardLine(<<1, -1>>, 1, "CaptureOnly"),
       BoardLine(<<-1, -1>>, 1, "CaptureOnly") >>

ROOK_BOARD_LINES ==
    << BoardLine(<<1, 0>>, 7, "Normal"),
       BoardLine(<<0, 1>>, 7, "Normal"),
       BoardLine(<<-1, 0>>, 7, "Normal"),
       BoardLine(<<0, -1>>, 7, "Normal") >>

KNIGHT_BOARD_LINES ==
    << BoardLine(<<1, 2>>, 1, "Normal"),
       BoardLine(<<-1, 2>>, 1, "Normal"),
       BoardLine(<<-2, 1>>, 1, "Normal"),
       BoardLine(<<-2, -1>>, 1, "Normal"),
       BoardLine(<<-1, -2>>, 1, "Normal"),
       BoardLine(<<1, -2>>, 1, "Normal"),
       BoardLine(<<2, -1>>, 1, "Normal"),
       BoardLine(<<2, 1>>, 1, "Normal") >>

BISHOP_BOARD_LINES ==
    << BoardLine(<<1, 1>>, 7, "Normal"),
       BoardLine(<<-1, 1>>, 7, "Normal"),
       BoardLine(<<-1, -1>>, 7, "Normal"),
       BoardLine(<<1, -1>>, 7, "Normal") >>

QUEEN_BOARD_LINES ==
    << BoardLine(<<1, 0>>, 7, "Normal"),
       BoardLine(<<0, 1>>, 7, "Normal"),
       BoardLine(<<-1, 0>>, 7, "Normal"),
       BoardLine(<<0, -1>>, 7, "Normal"),
       BoardLine(<<1, 1>>, 7, "Normal"),
       BoardLine(<<-1, 1>>, 7, "Normal"),
       BoardLine(<<-1, -1>>, 7, "Normal"),
       BoardLine(<<1, -1>>, 7, "Normal") >>

KING_BOARD_LINES ==
    << BoardLine(<<1, 0>>, 1, "Normal"),
       BoardLine(<<0, 1>>, 1, "Normal"),
       BoardLine(<<-1, 0>>, 1, "Normal"),
       BoardLine(<<0, -1>>, 1, "Normal"),
       BoardLine(<<1, 1>>, 1, "Normal"),
       BoardLine(<<-1, 1>>, 1, "Normal"),
       BoardLine(<<-1, -1>>, 1, "Normal"),
       BoardLine(<<1, -1>>, 1, "Normal") >>

CheckLines(piece_type, lines) == [piece_type |-> piece_type, lines |-> lines]

WHITE_KING_CHECK_BOARD_LINES ==
    << CheckLines("Pawn", WHITE_PAWN_BOARD_LINES),
       CheckLines("Rook", ROOK_BOARD_LINES),
       CheckLines("Knight", KNIGHT_BOARD_LINES),
       CheckLines("Bishop", BISHOP_BOARD_LINES),
       CheckLines("Queen", QUEEN_BOARD_LINES),
       CheckLines("King", KING_BOARD_LINES) >>

BLACK_KING_CHECK_BOARD_LINES ==
    << CheckLines("Pawn", BLACK_PAWN_BOARD_LINES),
       CheckLines("Rook", ROOK_BOARD_LINES),
       CheckLines("Knight", KNIGHT_BOARD_LINES),
       CheckLines("Bishop", BISHOP_BOARD_LINES),
       CheckLines("Queen", QUEEN_BOARD_LINES),
       CheckLines("King", KING_BOARD_LINES) >>

get_board_lines(piece) ==
    CASE piece.piece_type = "Pawn" /\ piece.player = White -> WHITE_PAWN_BOARD_LINES
      [] piece.piece_type = "Pawn" /\ piece.player = Black -> BLACK_PAWN_BOARD_LINES
      [] piece.piece_type = "Rook" -> ROOK_BOARD_LINES
      [] piece.piece_type = "Knight" -> KNIGHT_BOARD_LINES
      [] piece.piece_type = "Bishop" -> BISHOP_BOARD_LINES
      [] piece.piece_type = "Queen" -> QUEEN_BOARD_LINES
      [] piece.piece_type = "King" -> KING_BOARD_LINES

-----------------------------------------------------------------------------
(* board/board_pos.rs: BoardLineIterator.  The iterator's state is         *)
(* (current_index, current_line_length); current_index counts from 1 here. *)

\* next without the test of the line's max_length.
RECURSIVE next_any_length(_, _, _, _)
next_any_length(origin, lines, current_index, current_line_length) ==
    IF current_index > Len(lines)
    THEN [done |-> TRUE, position |-> NoPos, capture_type |-> "None",
          current_index |-> current_index, current_line_length |-> current_line_length]
    ELSE LET current_line == lines[current_index]
             pos == add(origin,
                        << current_line.offset[1] * (current_line_length + 1),
                           current_line.offset[2] * (current_line_length + 1) >>)
         IN  IF pos = NoPos
             THEN next_any_length(origin, lines, current_index + 1, 0)
             ELSE [done |-> FALSE, position |-> pos,
                   capture_type |-> current_line.capture_type,
                   current_index |-> current_index,
                   current_line_length |-> current_line_length + 1]

\* BoardLineIterator::next: the next target square and the iterator's state
\* after yielding it, or done when the lines are exhausted.
RECURSIVE next(_, _, _, _)
next(origin, lines, current_index, current_line_length) ==
    IF current_index > Len(lines)
    THEN [done |-> TRUE, position |-> NoPos, capture_type |-> "None",
          current_index |-> current_index, current_line_length |-> current_line_length]
    ELSE LET current_line == lines[current_index] IN
         IF current_line_length >= current_line.max_length
         THEN next(origin, lines, current_index + 1, 0)
         ELSE LET pos == add(origin,
                             << current_line.offset[1] * (current_line_length + 1),
                                current_line.offset[2] * (current_line_length + 1) >>)
              IN  IF pos = NoPos
                  THEN next(origin, lines, current_index + 1, 0)
                  ELSE [done |-> FALSE, position |-> pos,
                        capture_type |-> current_line.capture_type,
                        current_index |-> current_index,
                        current_line_length |-> current_line_length + 1]

\* BoardLineIterator::new.
new_iterator(origin, lines) ==
    [origin |-> origin, lines |-> lines, current_index |-> 1, current_line_length |-> 0]

\* No iterator: the value of iter where none is made.
NoIterator == new_iterator(NoPos, <<>>)

\* BoardLineIterator::skip_line.
skip_line(it) ==
    [it EXCEPT !.current_index = it.current_index + 1, !.current_line_length = 0]

-----------------------------------------------------------------------------
(* moves.rs: check detection *)

find_kings(b, player) ==
    {pos \in Squares : get_piece(b, pos) = Piece("King", player)}

\* The while loop of is_in_check over one (piece_type, board_lines) entry:
\* TRUE when the walk returns true, FALSE when the iterator is exhausted.
RECURSIVE check_lines_walk(_, _, _, _, _, _, _)
check_lines_walk(b, player, pos, piece_type, board_lines, current_index, current_line_length) ==
    LET target_square == next(pos, board_lines, current_index, current_line_length) IN
    IF target_square.done
    THEN FALSE
    ELSE LET occupant == get_occupant_state(b, target_square.position, player) IN
         IF occupant = "Empty"
         THEN check_lines_walk(b, player, pos, piece_type, board_lines,
                               target_square.current_index,
                               target_square.current_line_length)
         ELSE IF /\ occupant = "Enemy"
                 /\ target_square.capture_type \in {"Normal", "CaptureOnly"}
                 /\ get_piece(b, target_square.position).piece_type = piece_type
              THEN TRUE
              ELSE \* iter.skip_line()
                   check_lines_walk(b, player, pos, piece_type, board_lines,
                                    target_square.current_index + 1, 0)

\* is_in_check looking from the king along the check lines of the other
\* colour's king.
is_in_check_other_lines(b, player) ==
    \E pos \in find_kings(b, player) :
        LET king_check_board_lines ==
                IF player = White
                THEN BLACK_KING_CHECK_BOARD_LINES
                ELSE WHITE_KING_CHECK_BOARD_LINES
        IN  \E k \in 1 .. Len(king_check_board_lines) :
                check_lines_walk(b, player, pos,
                                 king_check_board_lines[k].piece_type,
                                 king_check_board_lines[k].lines, 1, 0)

is_in_check(b, player) ==
    \E pos \in find_kings(b, player) :
        LET king_check_board_lines ==
                IF player = White
                THEN WHITE_KING_CHECK_BOARD_LINES
                ELSE BLACK_KING_CHECK_BOARD_LINES
        IN  \E k \in 1 .. Len(king_check_board_lines) :
                check_lines_walk(b, player, pos,
                                 king_check_board_lines[k].piece_type,
                                 king_check_board_lines[k].lines, 1, 0)

\* A let binding of the source (let r = f(..); then uses of r): With(f(..),
\* LAMBDA r : ..) names the value of the call once for all its uses.
With(v, F(_)) == F(v)

PieceMovement(from, to) == [from |-> from, to |-> to]

\* leads_to_check with the test made after the movement is undone.
leads_to_check_after_undo(b, player, piece_movement) ==
    [in_check |-> is_in_check(b, player), board |-> b]

\* leads_to_check without its "undo move" statements.
leads_to_check_without_undo(b, player, piece_movement) ==
    LET moved_piece == get_piece(b, piece_movement.from)
        moved == set_piece(set_piece(b, piece_movement.from, NoPiece),
                           piece_movement.to, moved_piece)
    IN  [in_check |-> is_in_check(moved, player), board |-> moved]

\* leads_to_check: whether the movement leaves player in check, and the
\* board as the call leaves it (the movement made, then undone).
leads_to_check(b, player, piece_movement) ==
    LET moved_piece == get_piece(b, piece_movement.from)
        replaced_piece == get_piece(b, piece_movement.to)
        moved == set_piece(set_piece(b, piece_movement.from, NoPiece),
                           piece_movement.to, moved_piece)
        in_check == is_in_check(moved, player)
        undone == set_piece(set_piece(moved, piece_movement.from, moved_piece),
                            piece_movement.to, replaced_piece)
    IN  [in_check |-> in_check, board |-> undone]

\* create_en_passant_target returning the square the pawn lands on.
create_en_passant_target_landing(player, piece_movement) ==
    LET pawn_start_rank == IF player = White THEN 1 ELSE 6
        double_move_rank == IF player = White THEN 3 ELSE 4
    IN  IF /\ Rank(piece_movement.from) = pawn_start_rank
           /\ Rank(piece_movement.to) = double_move_rank
        THEN piece_movement.to
        ELSE NoPos

create_en_passant_target(player, piece_movement) ==
    LET pawn_start_rank == IF player = White THEN 1 ELSE 6
        double_move_rank == IF player = White THEN 3 ELSE 4
    IN  IF /\ Rank(piece_movement.from) = pawn_start_rank
           /\ Rank(piece_movement.to) = double_move_rank
        THEN add(piece_movement.from, IF player = White THEN <<0, 1>> ELSE <<0, -1>>)
        ELSE NoPos

\* get_en_passant_pos with the offsets of the two players exchanged.
get_en_passant_pos_ahead(player, target) ==
    add(target, IF player = White THEN <<0, 1>> ELSE <<0, -1>>)

get_en_passant_pos(player, target) ==
    add(target, IF player = White THEN <<0, -1>> ELSE <<0, 1>>)

\* is_first_move_pawn answering for a pawn on any rank with two squares ahead.
is_first_move_pawn_any_rank(player, pos) ==
    IF player = White
    THEN IF Rank(pos) < 6 THEN <<add(pos, <<0, 1>>), add(pos, <<0, 2>>)>> ELSE <<>>
    ELSE IF Rank(pos) > 1 THEN <<add(pos, <<0, -1>>), add(pos, <<0, -2>>)>> ELSE <<>>

\* is_first_move_pawn: <<forward_move_pos, double_move_pos>>, or <<>> for None.
is_first_move_pawn(player, pos) ==
    IF player = White
    THEN IF Rank(pos) = 1 THEN <<add(pos, <<0, 1>>), add(pos, <<0, 2>>)>> ELSE <<>>
    ELSE IF Rank(pos) = 6 THEN <<add(pos, <<0, -1>>), add(pos, <<0, -2>>)>> ELSE <<>>

-----------------------------------------------------------------------------
(* moves.rs: move generation.  The functions that take the board by        *)
(* mutable reference return the bitmap together with the board they leave. *)

add_en_passant_moves(b, player, pos, target, bitmap) ==
    LET capture_offsets ==
            IF player = White
            THEN << <<-1, 1>>, <<1, 1>> >>
            ELSE << <<-1, -1>>, <<1, -1>> >>
        capture_squares == << add(pos, capture_offsets[1]), add(pos, capture_offsets[2]) >>
        en_passanted_pos == get_en_passant_pos(player, target)
    IN  IF target # capture_squares[1] /\ target # capture_squares[2]
        THEN [bitmap |-> bitmap, board |-> b]
        ELSE IF en_passanted_pos = NoPos
        THEN [bitmap |-> bitmap, board |-> b]
        ELSE LET moved_piece == get_piece(b, pos)
                 destination_piece == get_piece(b, target)
                 en_passanted_piece == get_piece(b, en_passanted_pos)
                 trial == set_piece(set_piece(set_piece(b, pos, NoPiece),
                                              target, moved_piece),
                                    en_passanted_pos, NoPiece)
                 undone == set_piece(set_piece(set_piece(trial, pos, moved_piece),
                                               target, destination_piece),
                                     en_passanted_pos, en_passanted_piece)
             IN  [bitmap |-> IF ~is_in_check(trial, player)
                             THEN bitmap \cup {target}
                             ELSE bitmap,
                  board |-> undone]

\* The passes_through loop of add_on_side: ok is FALSE when some square leads
\* to check (the closure returns there).
RECURSIVE passes_through_loop(_, _, _, _, _)
passes_through_loop(b, player, king_moves_from, passes_through, i) ==
    IF i > Len(passes_through)
    THEN [ok |-> TRUE, board |-> b]
    ELSE With(leads_to_check(b, player,
                             PieceMovement(king_moves_from, passes_through[i])),
              LAMBDA r :
                  IF r.in_check
                  THEN [ok |-> FALSE, board |-> r.board]
                  ELSE passes_through_loop(r.board, player, king_moves_from,
                                           passes_through, i + 1))

\* The closure add_on_side of add_castling_moves.
add_on_side(b, player, rook_pos, king_moves_from, king_moves_to, must_be_empty, passes_through, bitmap) ==
    IF get_piece(b, rook_pos) = NoPiece
    THEN [bitmap |-> bitmap, board |-> b]
    ELSE IF get_piece(b, rook_pos).piece_type # "Rook"
    THEN [bitmap |-> bitmap, board |-> b]
    ELSE IF \E i \in 1 .. Len(must_be_empty) : get_piece(b, must_be_empty[i]) # NoPiece
    THEN [bitmap |-> bitmap, board |-> b]
    ELSE With(passes_through_loop(b, player, king_moves_from, passes_through, 1),
              LAMBDA r :
                  [bitmap |-> IF r.ok THEN bitmap \cup {king_moves_to} ELSE bitmap,
                   board |-> r.board])

\* add_castling_moves with the b-file square among the squares the king
\* passes through on the queen's side.
add_castling_moves_through_b(b, player, rights, bitmap) ==
    IF is_in_check(b, player)
    THEN [bitmap |-> bitmap, board |-> b]
    ELSE LET rank == IF player = White THEN 0 ELSE 7
             king_moves_from == Pos(4, rank)
         IN  With(IF rights.queenside
                  THEN add_on_side(b, player, Pos(0, rank), king_moves_from,
                                   Pos(2, rank),
                                   <<Pos(1, rank), Pos(2, rank), Pos(3, rank)>>,
                                   <<Pos(1, rank), Pos(2, rank), Pos(3, rank)>>, bitmap)
                  ELSE [bitmap |-> bitmap, board |-> b],
                  LAMBDA queenside :
                      IF rights.kingside
                      THEN add_on_side(queenside.board, player, Pos(7, rank),
                                       king_moves_from, Pos(6, rank),
                                       <<Pos(5, rank), Pos(6, rank)>>,
                                       <<Pos(5, rank), Pos(6, rank)>>, queenside.bitmap)
                      ELSE queenside)

add_castling_moves(b, player, rights, bitmap) ==
    IF is_in_check(b, player)
    THEN [bitmap |-> bitmap, board |-> b]
    ELSE LET rank == IF player = White THEN 0 ELSE 7
             king_moves_from == Pos(4, rank)
         IN  With(IF rights.queenside
                  THEN add_on_side(b, player, Pos(0, rank), king_moves_from,
                                   Pos(2, rank),
                                   <<Pos(1, rank), Pos(2, rank), Pos(3, rank)>>,
                                   <<Pos(2, rank), Pos(3, rank)>>, bitmap)
                  ELSE [bitmap |-> bitmap, board |-> b],
                  LAMBDA queenside :
                      IF rights.kingside
                      THEN add_on_side(queenside.board, player, Pos(7, rank),
                                       king_moves_from, Pos(6, rank),
                                       <<Pos(5, rank), Pos(6, rank)>>,
                                       <<Pos(5, rank), Pos(6, rank)>>, queenside.bitmap)
                      ELSE queenside)

\* board_lines_walk going on along a line after a capture on it.
RECURSIVE board_lines_walk_past_capture(_, _, _, _, _, _, _)
board_lines_walk_past_capture(b, player, pos, board_lines, current_index, current_line_length, bitmap) ==
    LET target_square == next(pos, board_lines, current_index, current_line_length) IN
    IF target_square.done
    THEN bitmap
    ELSE LET occupant == get_occupant_state(b, target_square.position, player) IN
         CASE occupant = "Empty" ->
                board_lines_walk_past_capture(b, player, pos, board_lines,
                    target_square.current_index, target_square.current_line_length,
                    IF target_square.capture_type \in {"Normal", "MoveOnly"}
                    THEN bitmap \cup {target_square.position}
                    ELSE bitmap)
           [] occupant = "Friendly" ->
                board_lines_walk_past_capture(b, player, pos, board_lines,
                    target_square.current_index + 1, 0, bitmap)
           [] occupant = "Enemy" ->
                board_lines_walk_past_capture(b, player, pos, board_lines,
                    target_square.current_index, target_square.current_line_length,
                    IF target_square.capture_type \in {"Normal", "CaptureOnly"}
                    THEN bitmap \cup {target_square.position}
                    ELSE bitmap)

\* The while loop of get_available_moves over the piece's board lines.
RECURSIVE board_lines_walk(_, _, _, _, _, _, _)
board_lines_walk(b, player, pos, board_lines, current_index, current_line_length, bitmap) ==
    LET target_square == next(pos, board_lines, current_index, current_line_length) IN
    IF target_square.done
    THEN bitmap
    ELSE LET occupant == get_occupant_state(b, target_square.position, player) IN
         CASE occupant = "Empty" ->
                board_lines_walk(b, player, pos, board_lines,
                    target_square.current_index, target_square.current_line_length,
                    IF target_square.capture_type \in {"Normal", "MoveOnly"}
                    THEN bitmap \cup {target_square.position}
                    ELSE bitmap)
           [] occupant = "Friendly" ->
                board_lines_walk(b, player, pos, board_lines,
                    target_square.current_index + 1, 0, bitmap)
           [] occupant = "Enemy" ->
                IF target_square.capture_type \in {"Normal", "CaptureOnly"}
                THEN board_lines_walk(b, player, pos, board_lines,
                         target_square.current_index + 1, 0,
                         bitmap \cup {target_square.position})
                ELSE board_lines_walk(b, player, pos, board_lines,
                         target_square.current_index,
                         target_square.current_line_length, bitmap)

\* The pawn arm of get_available_moves: en passant, then the double move.
pawn_moves(b, player, pos, context, bitmap) ==
    With(IF context.en_passant_target # NoPos
         THEN add_en_passant_moves(b, player, pos, context.en_passant_target, bitmap)
         ELSE [bitmap |-> bitmap, board |-> b],
         LAMBDA en_passant :
             LET first_move == is_first_move_pawn(player, pos)
             IN  IF /\ first_move # <<>>
                    /\ get_occupant_state(en_passant.board, first_move[1], player)
                            = "Empty"
                    /\ get_occupant_state(en_passant.board, first_move[2], player)
                            = "Empty"
                 THEN [bitmap |-> en_passant.bitmap \cup {first_move[2]},
                       board |-> en_passant.board]
                 ELSE en_passant)

\* The closing loops of get_available_moves: every marked square whose move
\* leads to check is unmarked.  The inner loop, over the ranks of one file:
RECURSIVE filter_rank_loop(_, _, _, _, _, _)
filter_rank_loop(b, player, pos, bitmap, file, rank) ==
    IF rank > 7
    THEN [bitmap |-> bitmap, board |-> b]
    ELSE LET move_to == Pos(file, rank) IN
         IF move_to \in bitmap
         THEN With(leads_to_check(b, player, PieceMovement(pos, move_to)),
                   LAMBDA r :
                       filter_rank_loop(r.board, player, pos,
                                        IF r.in_check
                                        THEN bitmap \ {move_to}
                                        ELSE bitmap,
                                        file, rank + 1))
         ELSE filter_rank_loop(b, player, pos, bitmap, file, rank + 1)

\* The outer loop, over the files:
RECURSIVE filter_loop(_, _, _, _, _)
filter_loop(b, player, pos, bitmap, file) ==
    IF file > 7
    THEN [bitmap |-> bitmap, board |-> b]
    ELSE With(filter_rank_loop(b, player, pos, bitmap, file, 0),
              LAMBDA r : filter_loop(r.board, player, pos, r.bitmap, file + 1))

\* get_available_moves without the return for a piece of the other player.
get_available_moves_any_player(b, player, pos, context) ==
    LET piece == get_piece(b, pos) IN
    IF piece = NoPiece
    THEN [bitmap |-> {}, board |-> b]
    ELSE LET walked == board_lines_walk(b, piece.player, pos, get_board_lines(piece),
                                        1, 0, {})
         IN  filter_loop(b, piece.player, pos, walked, 0)

get_available_moves(b, player, pos, context) ==
    LET piece == get_piece(b, pos) IN
    IF piece = NoPiece
    THEN [bitmap |-> {}, board |-> b]
    ELSE IF piece.player # player
    THEN [bitmap |-> {}, board |-> b]
    ELSE With(board_lines_walk(b, player, pos, get_board_lines(piece), 1, 0, {}),
              LAMBDA walked :
                  With(CASE piece.piece_type = "Pawn" ->
                              pawn_moves(b, player, pos, context, walked)
                         [] piece.piece_type = "King" ->
                              add_castling_moves(b, player, context.castling_rights,
                                                 walked)
                         [] OTHER -> [bitmap |-> walked, board |-> b],
                       LAMBDA special :
                           filter_loop(special.board, player, pos, special.bitmap, 0)))

-----------------------------------------------------------------------------
(* moves.rs: move application *)

\* PromotionType with a pawn among the types.
PromotionTypeWithPawn == {"Knight", "Bishop", "Rook", "Queen", "Pawn"}

PromotionType == {"Knight", "Bishop", "Rook", "Queen"}

ChessMove(from, to, promotion) ==
    [piece_movement |-> PieceMovement(from, to), promotion |-> promotion]

MoveContext(rights, target) == [castling_rights |-> rights, en_passant_target |-> target]

MoveResult(captured_piece, new_en_passant_target, removes_queenside, removes_kingside) ==
    [captured_piece |-> captured_piece,
     new_en_passant_target |-> new_en_passant_target,
     removes_queenside_castling_rights |-> removes_queenside,
     removes_kingside_castling_rights |-> removes_kingside]

\* The pawn arm of do_move, after the promotion checks have passed: the
\* en-passant capture.
pawn_capture_en_passant(b, player, chess_move, context, captured_piece) ==
    LET target == context.en_passant_target
        en_passant_pos == IF target # NoPos
                          THEN get_en_passant_pos(player, target)
                          ELSE NoPos
    IN  IF /\ target # NoPos
           /\ chess_move.piece_movement.to = target
           /\ en_passant_pos # NoPos
        THEN [captured_piece |-> get_piece(b, en_passant_pos),
              board |-> set_piece(b, en_passant_pos, NoPiece)]
        ELSE [captured_piece |-> captured_piece, board |-> b]

\* king_castling_rook with the rook taken from the other corner.
king_castling_rook_other_corner(b, player, chess_move) ==
    LET rank == IF player = White THEN 0 ELSE 7
        queenside_move == PieceMovement(Pos(4, rank), Pos(2, rank))
        kingside_move == PieceMovement(Pos(4, rank), Pos(6, rank))
    IN  IF chess_move.piece_movement = queenside_move
        THEN set_piece(set_piece(b, Pos(7, rank), NoPiece),
                       Pos(3, rank), get_piece(b, Pos(7, rank)))
        ELSE IF chess_move.piece_movement = kingside_move
        THEN set_piece(set_piece(b, Pos(0, rank), NoPiece),
                       Pos(5, rank), get_piece(b, Pos(0, rank)))
        ELSE b

\* The king arm of do_move: the rook's relocation when the movement is one of
\* the two castling movements.
king_castling_rook(b, player, chess_move) ==
    LET rank == IF player = White THEN 0 ELSE 7
        queenside_move == PieceMovement(Pos(4, rank), Pos(2, rank))
        kingside_move == PieceMovement(Pos(4, rank), Pos(6, rank))
    IN  IF chess_move.piece_movement = queenside_move
        THEN set_piece(set_piece(b, Pos(0, rank), NoPiece),
                       Pos(3, rank), get_piece(b, Pos(0, rank)))
        ELSE IF chess_move.piece_movement = kingside_move
        THEN set_piece(set_piece(b, Pos(7, rank), NoPiece),
                       Pos(5, rank), get_piece(b, Pos(7, rank)))
        ELSE b

\* place_moved_piece putting the piece of the origin on the destination.
place_moved_piece_as_it_was(b, chess_move, piece_after_move) ==
    set_piece(set_piece(b, chess_move.piece_movement.from, NoPiece),
              chess_move.piece_movement.to,
              get_piece(b, chess_move.piece_movement.from))

\* The closing two set_piece calls of do_move.
place_moved_piece(b, chess_move, piece_after_move) ==
    set_piece(set_piece(b, chess_move.piece_movement.from, NoPiece),
              chess_move.piece_movement.to, piece_after_move)

\* do_move without its three returns of a promotion error: a promotion type
\* given to a piece that does not promote is ignored, a pawn that reaches the
\* promotion rank without one stays a pawn.
do_move_without_promotion_errors(b, player, chess_move, context) ==
    LET moved_piece == get_piece(b, chess_move.piece_movement.from)
        captured_piece == get_piece(b, chess_move.piece_movement.to)
        no_result == MoveResult(NoPiece, NoPos, FALSE, FALSE)
    IN  IF moved_piece = NoPiece
        THEN [error |-> "Ok", board |-> b, move_result |-> no_result]
        ELSE CASE moved_piece.piece_type = "Pawn" ->
                    LET promotion_rank == IF player = White THEN 7 ELSE 0
                        promotes == /\ Rank(chess_move.piece_movement.to) = promotion_rank
                                    /\ chess_move.promotion # "None"
                        piece_after_move ==
                            IF promotes
                            THEN Piece(chess_move.promotion, player)
                            ELSE moved_piece
                        capture == pawn_capture_en_passant(b, player, chess_move, context,
                                                           captured_piece)
                    IN  [error |-> "Ok",
                         board |-> place_moved_piece(capture.board, chess_move,
                                                     piece_after_move),
                         move_result |->
                             MoveResult(capture.captured_piece,
                                        create_en_passant_target(
                                            player, chess_move.piece_movement),
                                        FALSE, FALSE)]
               [] moved_piece.piece_type = "King" ->
                    [error |-> "Ok",
                     board |-> place_moved_piece(king_castling_rook(b, player, chess_move),
                                                 chess_move, moved_piece),
                     move_result |-> MoveResult(captured_piece, NoPos, TRUE, TRUE)]
               [] OTHER ->
                    [error |-> "Ok",
                     board |-> place_moved_piece(b, chess_move, moved_piece),
                     move_result |-> MoveResult(captured_piece, NoPos, FALSE, FALSE)]

\* moves::do_move: error is "Ok" with the move result and the board as the
\* move leaves it, or the ChessError with the board as it is at the return.
do_move(b, player, chess_move, context) ==
    LET moved_piece == get_piece(b, chess_move.piece_movement.from)
        captured_piece == get_piece(b, chess_move.piece_movement.to)
        no_result == MoveResult(NoPiece, NoPos, FALSE, FALSE)
        failed(error) == [error |-> error, board |-> b, move_result |-> no_result]
    IN  IF moved_piece = NoPiece
        THEN [error |-> "Ok", board |-> b, move_result |-> no_result]
        ELSE IF moved_piece.piece_type # "Pawn" /\ chess_move.promotion # "None"
        THEN failed("UnexpectedPromotionType")
        ELSE CASE moved_piece.piece_type = "Pawn" ->
                    LET promotion_rank == IF player = White THEN 7 ELSE 0
                        promotes == Rank(chess_move.piece_movement.to) = promotion_rank
                        piece_after_move ==
                            IF promotes
                            THEN Piece(chess_move.promotion, player)
                            ELSE moved_piece
                        capture == pawn_capture_en_passant(b, player, chess_move, context,
                                                           captured_piece)
                    IN  IF promotes /\ chess_move.promotion = "None"
                        THEN failed("MissingPromotionType")
                        ELSE IF ~promotes /\ chess_move.promotion # "None"
                        THEN failed("UnexpectedPromotionType")
                        ELSE [error |-> "Ok",
                              board |-> place_moved_piece(capture.board, chess_move,
                                                          piece_after_move),
                              move_result |->
                                  MoveResult(capture.captured_piece,
                                             create_en_passant_target(
                                                 player, chess_move.piece_movement),
                                             FALSE, FALSE)]
               [] moved_piece.piece_type = "King" ->
                    [error |-> "Ok",
                     board |-> place_moved_piece(king_castling_rook(b, player, chess_move),
                                                 chess_move, moved_piece),
                     move_result |-> MoveResult(captured_piece, NoPos, TRUE, TRUE)]
               [] moved_piece.piece_type = "Rook" ->
                    \* the two statements of the rook arm only read the result's
                    \* flags: they stay false
                    [error |-> "Ok",
                     board |-> place_moved_piece(b, chess_move, moved_piece),
                     move_result |-> MoveResult(captured_piece, NoPos, FALSE, FALSE)]
               [] OTHER ->
                    [error |-> "Ok",
                     board |-> place_moved_piece(b, chess_move, moved_piece),
                     move_result |-> MoveResult(captured_piece, NoPos, FALSE, FALSE)]

-----------------------------------------------------------------------------
(* chess.rs: ChessGame.  A game is the record of the struct's fields; every *)
(* method is the function from the game (and its arguments) to the game it  *)
(* leaves and what it returns.                                              *)

NotYetStarted == [kind |-> "NotYetStarted", player |-> "None", reason |-> "None"]
Normal == [kind |-> "Normal", player |-> "None", reason |-> "None"]
Draw(reason) == [kind |-> "Draw", player |-> "None", reason |-> reason]
Win(player, reason) == [kind |-> "Win", player |-> player, reason |-> reason]

CastlingRights(queenside, kingside) == [queenside |-> queenside, kingside |-> kingside]

ChessGame(status, player, b, cache, rights, target) ==
    [game_status |-> status, active_player |-> player, board |-> b,
     available_moves |-> cache, castling_rights |-> rights,
     en_passant_target |-> target]

move_context(g) ==
    MoveContext(g.castling_rights[g.active_player], g.en_passant_target)

\* TLC evaluates the argument of an operator when the operator first uses it.
\* A loop that hands a value on from round to round tests Evaluated of it in
\* every round, so that no round is left to be evaluated inside a later one.
Evaluated(v) == v = v

\* The loops of recalculate_available_moves.  The inner loop, over the ranks
\* of one file:
RECURSIVE recalculate_rank_loop(_, _, _)
recalculate_rank_loop(g, file, rank) ==
    IF rank > 7 \/ ~Evaluated(g)
    THEN g
    ELSE With(get_available_moves(g.board, g.active_player, Pos(file, rank),
                                  move_context(g)),
              LAMBDA r :
                  recalculate_rank_loop(
                      [g EXCEPT !.board = r.board,
                                !.available_moves[Pos(file, rank)] = r.bitmap],
                      file, rank + 1))

\* The outer loop, over the files:
RECURSIVE recalculate_loop(_, _)
recalculate_loop(g, file) ==
    IF file > 7 \/ ~Evaluated(g)
    THEN g
    ELSE recalculate_loop(recalculate_rank_loop(g, file, 0), file + 1)

recalculate_available_moves(g) == recalculate_loop(g, 0)

new(starting_board) ==
    recalculate_available_moves(
        ChessGame(NotYetStarted, White, starting_board,
                  [pos \in Squares |-> {}],
                  [c \in PlayerColor |-> CastlingRights(TRUE, TRUE)],
                  NoPos))

\* ChessGame::available_moves: the cached bitmap of the square.
cached_moves(g, pos) == g.available_moves[pos]

\* draw_by_agreement without the match on the status.
draw_by_agreement_any_status(g) ==
    [game |-> [g EXCEPT !.game_status = Draw("DrawByAgreement")], result |-> "Ok"]

draw_by_agreement(g) ==
    CASE g.game_status.kind = "Normal" ->
            [game |-> [g EXCEPT !.game_status = Draw("DrawByAgreement")], result |-> "Ok"]
      [] g.game_status.kind = "NotYetStarted" ->
            [game |-> g, result |-> "GameNotStarted"]
      [] OTHER ->
            [game |-> g, result |-> "GameAlreadyEnded"]

\* resign with the win given to the player who resigns.
resign_wins(g) ==
    CASE g.game_status.kind = "Normal" ->
            [game |-> [g EXCEPT !.game_status = Win(g.active_player, "Resignation")],
             result |-> "Ok"]
      [] g.game_status.kind = "NotYetStarted" ->
            [game |-> g, result |-> "GameNotStarted"]
      [] OTHER ->
            [game |-> g, result |-> "GameAlreadyEnded"]

resign(g) ==
    CASE g.game_status.kind = "Normal" ->
            [game |-> [g EXCEPT !.game_status =
                           Win(other_player(g.active_player), "Resignation")],
             result |-> "Ok"]
      [] g.game_status.kind = "NotYetStarted" ->
            [game |-> g, result |-> "GameNotStarted"]
      [] OTHER ->
            [game |-> g, result |-> "GameAlreadyEnded"]

\* remove_castling_rights clearing the queenside right only.
remove_castling_rights_queenside_only(rights, player, move_result) ==
    IF move_result.removes_queenside_castling_rights
    THEN [rights EXCEPT ![player].queenside = FALSE]
    ELSE rights

\* remove_castling_rights clearing the rights of the player who did not move.
remove_castling_rights_of_opponent(rights, player, move_result) ==
    LET queenside == IF move_result.removes_queenside_castling_rights
                     THEN [rights EXCEPT ![other_player(player)].queenside = FALSE]
                     ELSE rights
    IN  IF move_result.removes_kingside_castling_rights
        THEN [queenside EXCEPT ![other_player(player)].kingside = FALSE]
        ELSE queenside

\* The castling-rights part of after_move.
remove_castling_rights(rights, player, move_result) ==
    LET queenside == IF move_result.removes_queenside_castling_rights
                     THEN [rights EXCEPT ![player].queenside = FALSE]
                     ELSE rights
    IN  IF move_result.removes_kingside_castling_rights
        THEN [queenside EXCEPT ![player].kingside = FALSE]
        ELSE queenside

\* determine_game_status with the test for check negated.
determine_game_status_negated(g) ==
    LET has_available_moves == \E pos \in Squares : g.available_moves[pos] # {}
    IN  IF has_available_moves
        THEN g
        ELSE IF ~is_in_check(g.board, g.active_player)
        THEN [g EXCEPT !.game_status = Win(other_player(g.active_player), "Checkmate")]
        ELSE [g EXCEPT !.game_status = Draw("Stalemate")]

\* The game-status part of after_move.
determine_game_status(g) ==
    LET has_available_moves == \E pos \in Squares : g.available_moves[pos] # {}
    IN  IF has_available_moves
        THEN g
        ELSE IF is_in_check(g.board, g.active_player)
        THEN [g EXCEPT !.game_status = Win(other_player(g.active_player), "Checkmate")]
        ELSE [g EXCEPT !.game_status = Draw("Stalemate")]

\* after_move without the recalculation of the cache.
after_move_stale_cache(g, move_result) ==
    determine_game_status(
        [g EXCEPT !.en_passant_target = move_result.new_en_passant_target,
                  !.castling_rights =
                      remove_castling_rights(g.castling_rights, g.active_player,
                                             move_result),
                  !.active_player = other_player(g.active_player)])

\* after_move without the change of the active player.
after_move_same_player(g, move_result) ==
    determine_game_status(
        recalculate_available_moves(
            [g EXCEPT !.en_passant_target = move_result.new_en_passant_target,
                      !.castling_rights =
                          remove_castling_rights(g.castling_rights, g.active_player,
                                                 move_result)]))

after_move(g, move_result) ==
    determine_game_status(
        recalculate_available_moves(
            [g EXCEPT !.en_passant_target = move_result.new_en_passant_target,
                      !.castling_rights =
                          remove_castling_rights(g.castling_rights, g.active_player,
                                                 move_result),
                      !.active_player = other_player(g.active_player)]))

\* ChessGame::do_move with the lookup made after moves::do_move has run.
game_do_move_late_lookup(g, chess_move) ==
    IF g.game_status.kind \in {"Draw", "Win"}
    THEN [game |-> g, result |-> "GameAlreadyEnded"]
    ELSE LET s == IF g.game_status.kind = "NotYetStarted"
                  THEN [g EXCEPT !.game_status = Normal]
                  ELSE g
             r == do_move(s.board, s.active_player, chess_move, move_context(s))
         IN  IF r.error # "Ok"
             THEN [game |-> [s EXCEPT !.board = r.board], result |-> r.error]
             ELSE IF chess_move.piece_movement.to
                         \notin cached_moves(s, chess_move.piece_movement.from)
             THEN [game |-> [s EXCEPT !.board = r.board], result |-> "IllegalMove"]
             ELSE [game |-> after_move([s EXCEPT !.board = r.board], r.move_result),
                   result |-> "Ok"]

\* The match on game_status that opens ChessGame::do_move, for a game that has
\* not ended.
started(g) ==
    IF g.game_status.kind = "NotYetStarted"
    THEN [g EXCEPT !.game_status = Normal]
    ELSE g

\* ChessGame::do_move.
game_do_move(g, chess_move) ==
    IF g.game_status.kind \in {"Draw", "Win"}
    THEN [game |-> g, result |-> "GameAlreadyEnded"]
    ELSE LET s == started(g) IN
         IF chess_move.piece_movement.to
                \notin cached_moves(s, chess_move.piece_movement.from)
         THEN [game |-> s, result |-> "IllegalMove"]
         ELSE With(do_move(s.board, s.active_player, chess_move, move_context(s)),
                   LAMBDA r :
                       IF r.error # "Ok"
                       THEN [game |-> [s EXCEPT !.board = r.board], result |-> r.error]
                       ELSE [game |-> after_move([s EXCEPT !.board = r.board],
                                                 r.move_result),
                             result |-> "Ok"])

-----------------------------------------------------------------------------
(* The boards the games of the model start from, and the requests made. *)

\* Board::from_array: the board holding the given pieces, every other square
\* empty.
from_array(pieces) ==
    [pos \in Squares |-> IF pos \in DOMAIN pieces THEN pieces[pos] ELSE NoPiece]

\* White can castle on either side; the a- and h-pawns are blocked.
CastlingBoard ==
    from_array(Pos(4, 0) :> Piece("King", White) @@ Pos(0, 0) :> Piece("Rook", White)
            @@ Pos(7, 0) :> Piece("Rook", White) @@ Pos(0, 1) :> Piece("Pawn", White)
            @@ Pos(7, 1) :> Piece("Pawn", White) @@ Pos(0, 2) :> Piece("Pawn", Black)
            @@ Pos(7, 2) :> Piece("Pawn", Black) @@ Pos(0, 7) :> Piece("King", Black))

\* White's e-pawn can pass Black's d-pawn with a double move.
EnPassantBoard ==
    from_array(Pos(0, 0) :> Piece("King", White) @@ Pos(4, 1) :> Piece("Pawn", White)
            @@ Pos(7, 7) :> Piece("King", Black) @@ Pos(3, 3) :> Piece("Pawn", Black))

\* Either player has a pawn one step from promotion.
PromotionBoard ==
    from_array(Pos(7, 0) :> Piece("King", White) @@ Pos(6, 6) :> Piece("Pawn", White)
            @@ Pos(0, 7) :> Piece("King", Black) @@ Pos(1, 1) :> Piece("Pawn", Black))

\* g6-g7 is checkmate.
CheckmateBoard ==
    from_array(Pos(5, 6) :> Piece("King", White) @@ Pos(6, 5) :> Piece("Pawn", White)
            @@ Pos(7, 5) :> Piece("Pawn", White) @@ Pos(7, 7) :> Piece("King", Black)
            @@ Pos(7, 6) :> Piece("Pawn", Black))

\* g5-g6 is stalemate.
StalemateBoard ==
    from_array(Pos(5, 6) :> Piece("King", White) @@ Pos(6, 4) :> Piece("Pawn", White)
            @@ Pos(7, 7) :> Piece("King", Black))

\* White's king stands on d1, its rook on h1 with f1 and g1 empty.
KingOffHomeBoard ==
    from_array(Pos(3, 0) :> Piece("King", White) @@ Pos(7, 0) :> Piece("Rook", White)
            @@ Pos(0, 7) :> Piece("King", Black))

\* White is to move and its rook on e1 attacks Black's king on e8.
BlackInCheckBoard ==
    from_array(Pos(0, 0) :> Piece("King", White) @@ Pos(4, 0) :> Piece("Rook", White)
            @@ Pos(4, 7) :> Piece("King", Black))

\* White is to move and is stalemated: the queen on b3 covers a2, b1 and b2.
NoMovesBoard ==
    from_array(Pos(0, 0) :> Piece("King", White) @@ Pos(1, 2) :> Piece("Queen", Black)
            @@ Pos(7, 7) :> Piece("King", Black))

StartBoards ==
    {CastlingBoard, EnPassantBoard, PromotionBoard, CheckmateBoard, StalemateBoard,
     KingOffHomeBoard, BlackInCheckBoard, NoMovesBoard}

\* The squares of the requests made whatever the position holds: squares that
\* hold a king, a pawn or nothing on one or another of the start boards.
ProbeSquares ==
    {Pos(4, 0), Pos(6, 0), Pos(4, 1), Pos(4, 2), Pos(4, 3), Pos(3, 3),
     Pos(5, 6), Pos(6, 6), Pos(6, 7), Pos(7, 7)}

\* The moves requested of game g: every cached destination of every square,
\* with and without a promotion type, and every movement between two probe
\* squares, with and without a promotion type.
Requests(g) ==
    {ChessMove(from, to, promotion) :
        from \in ProbeSquares, to \in ProbeSquares, promotion \in {"None", "Queen"}}
    \cup UNION {{ChessMove(from, to, promotion) :
                    to \in g.available_moves[from],
                    promotion \in PromotionType \cup {"None"}} : from \in Squares}

NoMove == ChessMove(NoPos, NoPos, "None")

-----------------------------------------------------------------------------
(* The state machine: one game, and the calls made on it.  A call that      *)
(* returns an error or a bitmap is a step too; it leaves the history alone. *)

Game ==
    ChessGame(game_status, active_player, board, available_moves, castling_rights,
              en_passant_target)

\* The game's fields after a call.
Becomes(g) ==
    /\ game_status' = g.game_status
    /\ active_player' = g.active_player
    /\ board' = g.board
    /\ available_moves' = g.available_moves
    /\ castling_rights' = g.castling_rights
    /\ en_passant_target' = g.en_passant_target

\* The history after a call that returned r.
Returned(call, r) ==
    IF r.result = "Ok"
    THEN last_call' = call /\ prev' = Game
    ELSE UNCHANGED <<last_call, prev>>

Init ==
    \E b \in StartBoards : \E g \in {new(b)} :
        /\ game_status = g.game_status
        /\ active_player = g.active_player
        /\ board = g.board
        /\ available_moves = g.available_moves
        /\ castling_rights = g.castling_rights
        /\ en_passant_target = g.en_passant_target
        /\ initial_board = b
        /\ fen_string = <<>>
        /\ iter = NoIterator
        /\ yielded = <<>>
        /\ last_call = "new"
        /\ last_move = NoMove
        /\ prev = g
        /\ moves = 0

DoMove ==
    /\ moves < MaxMoves
    /\ \E chess_move \in Requests(Game) : \E r \in {game_do_move(Game, chess_move)} :
        /\ Becomes(r.game)
        /\ Returned("do_move", r)
        /\ IF r.result = "Ok"
           THEN last_move' = chess_move /\ moves' = moves + 1
           ELSE UNCHANGED <<last_move, moves>>
        /\ UNCHANGED <<initial_board, fen_string, iter, yielded>>

Resign ==
    \E r \in {resign(Game)} :
    /\ Becomes(r.game)
    /\ Returned("resign", r)
    /\ UNCHANGED <<initial_board, fen_string, iter, yielded, last_move, moves>>

DrawByAgreement ==
    \E r \in {draw_by_agreement(Game)} :
    /\ Becomes(r.game)
    /\ Returned("draw_by_agreement", r)
    /\ UNCHANGED <<initial_board, fen_string, iter, yielded, last_move, moves>>

\* ChessGame::available_moves returns cached_moves(Game, pos) and changes nothing.
AvailableMoves ==
    \E pos \in Squares :
        /\ cached_moves(Game, pos) \subseteq Squares
        /\ UNCHANGED vars

Next == DoMove \/ Resign \/ DrawByAgreement \/ AvailableMoves

Spec == Init /\ [][Next]_vars

-----------------------------------------------------------------------------
(* The properties of the game, each checked in every reachable state. *)

Terminal == game_status.kind \in {"Draw", "Win"}

\* The last call that returned Ok was a do_move: prev is the game it was made
\* on, last_move the move, and the calls since have failed.
MoveCommitted == last_call = "do_move"

\* The fields of a game other than its status.
Position(g) ==
    <<g.board, g.active_player, g.castling_rights, g.en_passant_target,
      g.available_moves>>

OneKingPerColour(b) ==
    \A c \in PlayerColor :
        Cardinality({pos \in Squares : get_piece(b, pos) = Piece("King", c)}) = 1

\* The squares of the active player's pieces.
ActiveSquares ==
    {pos \in Squares :
        get_piece(board, pos) # NoPiece /\ get_piece(board, pos).player = active_player}

\* C1: in every reachable state, the cached bitmap of each of the 64 squares is
\* what get_available_moves computes for the current board, active player,
\* castling rights of the active player and en-passant target.
C1_CacheIsCurrent ==
    \A pos \in Squares :
        cached_moves(Game, pos)
            = get_available_moves(board, active_player, pos, move_context(Game)).bitmap

\* A move has been committed, and the cache holds the en-passant capture it
\* allows.
C1_Witness ==
    /\ MoveCommitted
    /\ en_passant_target # NoPos
    /\ \E pos \in Squares : en_passant_target \in cached_moves(Game, pos)

\* C2: in a game started from a board with one king per colour, after every
\* do_move that returns Ok the player who moved is not in check.
C2_MoverNotInCheck ==
    (OneKingPerColour(initial_board) /\ MoveCommitted)
        => ~is_in_check(board, other_player(active_player))

\* The player who moved was in check before the move.
C2_Witness ==
    /\ OneKingPerColour(initial_board)
    /\ MoveCommitted
    /\ is_in_check(prev.board, prev.active_player)
    /\ ~is_in_check(board, prev.active_player)

\* C3: after every do_move that returns Ok, a new active player without a legal
\* destination on any square has lost by checkmate when in check and drawn by
\* stalemate otherwise; with a legal destination the status is Normal.
C3_StatusAfterMove ==
    MoveCommitted =>
        IF \A pos \in Squares : cached_moves(Game, pos) = {}
        THEN IF is_in_check(board, active_player)
             THEN game_status = Win(other_player(active_player), "Checkmate")
             ELSE game_status = Draw("Stalemate")
        ELSE game_status = Normal

\* A move has checkmated.
C3_Witness ==
    /\ MoveCommitted
    /\ game_status = Win(prev.active_player, "Checkmate")
    /\ is_in_check(board, active_player)

\* C4: once the status is Draw or Win, every do_move, resign and
\* draw_by_agreement returns GameAlreadyEnded and leaves every field of the
\* game, the status included, as it was.
C4_TerminalAbsorbing ==
    Terminal =>
        /\ \A chess_move \in Requests(Game) :
                game_do_move(Game, chess_move)
                    = [game |-> Game, result |-> "GameAlreadyEnded"]
        /\ resign(Game) = [game |-> Game, result |-> "GameAlreadyEnded"]
        /\ draw_by_agreement(Game) = [game |-> Game, result |-> "GameAlreadyEnded"]

\* The game has ended with a destination still in the cache, and moves to it
\* are among the requests.
C4_Witness ==
    /\ Terminal
    /\ \E chess_move \in Requests(Game) :
            chess_move.piece_movement.to
                \in cached_moves(Game, chess_move.piece_movement.from)

\* C5: in a game that has not ended, a do_move to a destination that the cache
\* of the origin does not hold returns IllegalMove, and leaves the board, the
\* active player, the castling rights, the en-passant target and the cache as
\* they were.
C5_IllegalMoveRefused ==
    ~Terminal =>
        \A chess_move \in Requests(Game) :
            chess_move.piece_movement.to
                    \notin cached_moves(Game, chess_move.piece_movement.from)
                => /\ game_do_move(Game, chess_move).result = "IllegalMove"
                   /\ Position(game_do_move(Game, chess_move).game) = Position(Game)

\* A do_move has been refused on a new game: the status is Normal, no move is
\* committed, and the position is the one the game started from.
C5_Witness ==
    /\ moves = 0
    /\ game_status = Normal
    /\ board = initial_board
    /\ \E chess_move \in Requests(Game) :
            /\ get_piece(board, chess_move.piece_movement.from) # NoPiece
            /\ game_do_move(Game, chess_move).result = "IllegalMove"

\* C6: while no do_move has returned Ok, resign and draw_by_agreement return
\* GameNotStarted and the game has not ended.
C6_NotStartedUntilFirstMove ==
    moves = 0 =>
        /\ ~Terminal
        /\ resign(Game) = [game |-> Game, result |-> "GameNotStarted"]
        /\ draw_by_agreement(Game) = [game |-> Game, result |-> "GameNotStarted"]

\* C7: from status Normal, resign returns Ok and gives the win to the player
\* who is not active, draw_by_agreement returns Ok and sets
\* Draw(DrawByAgreement), and both leave every other field as it was.
C7_ResignAndDraw ==
    game_status = Normal =>
        /\ resign(Game)
            = [game |-> [Game EXCEPT !.game_status =
                            Win(other_player(active_player), "Resignation")],
               result |-> "Ok"]
        /\ draw_by_agreement(Game)
            = [game |-> [Game EXCEPT !.game_status = Draw("DrawByAgreement")],
               result |-> "Ok"]

\* Black has resigned on Black's turn, and White has won.
C7_Witness ==
    /\ last_call = "resign"
    /\ prev.game_status = Normal
    /\ prev.active_player = Black
    /\ game_status = Win(White, "Resignation")
    /\ Position(Game) = Position(prev)

\* C8: the active player is White exactly when an even number of moves has
\* been committed: White after new, the other player after every do_move that
\* returns Ok, and the same player after every other call.
C8_TurnsAlternate ==
    (active_player = White) <=> (moves % 2 = 0)

\* One move is committed, a resignation has followed it, and it is still
\* Black's turn.
C8_Witness ==
    /\ moves = 1
    /\ last_call = "resign"
    /\ active_player = Black

\* The requests whose origin is empty or holds a piece of the player who is
\* not active.
C9_Requests ==
    {chess_move \in Requests(Game) :
        chess_move.piece_movement.from \notin ActiveSquares}

Implicated(g, chess_move) ==
    LET from == chess_move.piece_movement.from
        to == chess_move.piece_movement.to
        piece == get_piece(g.board, from)
    IN  {from, to}
        \cup (IF piece.piece_type = "King" /\ File(to) - File(from) = 2
              THEN {Pos(7, Rank(from)), Pos(5, Rank(from))}
              ELSE {})
        \cup (IF piece.piece_type = "King" /\ File(from) - File(to) = 2
              THEN {Pos(0, Rank(from)), Pos(3, Rank(from))}
              ELSE {})
        \cup (IF /\ piece.piece_type = "Pawn"
                 /\ File(from) # File(to)
                 /\ get_piece(g.board, to) = NoPiece
              THEN {Pos(File(to), Rank(from))}
              ELSE {})

\* C10: the board after a committed move differs from the board before it
\* only at the squares the move implicates.
C10_FrameOfMove ==
    MoveCommitted =>
        \A pos \in Squares \ Implicated(prev, last_move) :
            get_piece(board, pos) = get_piece(prev.board, pos)

\* White has castled on the king's side: the rook has left its corner.
C10_Witness ==
    /\ MoveCommitted
    /\ last_move = ChessMove(Pos(4, 0), Pos(6, 0), "None")
    /\ get_piece(prev.board, Pos(7, 0)) = Piece("Rook", White)
    /\ get_piece(board, Pos(7, 0)) = NoPiece
    /\ get_piece(board, Pos(5, 0)) = Piece("Rook", White)

-----------------------------------------------------------------------------
(* moves.rs as functions of their arguments.  A behaviour of MovesSpec is   *)
(* one call of leads_to_check, get_available_moves or do_move: the          *)
(* variables board, active_player, castling_rights and en_passant_target    *)
(* hold the board, the player and the context the call is given, prev the   *)
(* same before the call, last_call the function called (or the error        *)
(* do_move returned), last_move the movement or the origin the call was     *)
(* given, and available_moves, at the origin, the bitmap returned.          *)

\* Both players can castle on either side.
BothCastleBoard ==
    from_array(Pos(4, 0) :> Piece("King", White) @@ Pos(0, 0) :> Piece("Rook", White)
            @@ Pos(7, 0) :> Piece("Rook", White) @@ Pos(4, 7) :> Piece("King", Black)
            @@ Pos(0, 7) :> Piece("Rook", Black) @@ Pos(7, 7) :> Piece("Rook", Black))

\* One square of BothCastleBoard changed: a rook of the other player on the
\* file of a square the castling king or rook crosses, a knight between king
\* and rook, or another occupant of a corner.
CastleChanges ==
    {<<Pos(file, 4), Piece("Rook", Black)>> : file \in 1 .. 6}
    \cup {<<Pos(file, 3), Piece("Rook", White)>> : file \in 1 .. 6}
    \cup {<<Pos(file, 0), Piece("Knight", White)>> : file \in {1, 2, 3, 5, 6}}
    \cup {<<Pos(file, 7), Piece("Knight", Black)>> : file \in {1, 2, 3, 5, 6}}
    \cup {<<Pos(0, 0), NoPiece>>, <<Pos(0, 0), Piece("Bishop", White)>>,
          <<Pos(0, 0), Piece("Rook", Black)>>, <<Pos(7, 0), NoPiece>>,
          <<Pos(0, 7), NoPiece>>, <<Pos(0, 7), Piece("Bishop", Black)>>,
          <<Pos(0, 7), Piece("Rook", White)>>, <<Pos(7, 7), NoPiece>>}

CastleBoards ==
    {BothCastleBoard}
    \cup {set_piece(BothCastleBoard, change[1], change[2]) : change \in CastleChanges}

\* White's e-pawn has moved e2-e4 past Black's d-pawn.
BlackCapturesBoard ==
    from_array(Pos(0, 0) :> Piece("King", White) @@ Pos(4, 3) :> Piece("Pawn", White)
            @@ Pos(7, 7) :> Piece("King", Black) @@ Pos(3, 3) :> Piece("Pawn", Black))

\* White's e-pawn has moved e2-e4 and checks Black's king on d5; Black's
\* f-pawn can take it in passing.
BlackCapturesCheckingPawnBoard ==
    from_array(Pos(0, 0) :> Piece("King", White) @@ Pos(4, 3) :> Piece("Pawn", White)
            @@ Pos(3, 4) :> Piece("King", Black) @@ Pos(5, 3) :> Piece("Pawn", Black))

\* White's e-pawn has moved e2-e4; with it and Black's d-pawn gone from the
\* fourth rank, White's rook on h4 attacks Black's king on a4.
BlackCaptureUncoversBoard ==
    from_array(Pos(0, 0) :> Piece("King", White) @@ Pos(4, 3) :> Piece("Pawn", White)
            @@ Pos(7, 3) :> Piece("Rook", White) @@ Pos(0, 3) :> Piece("King", Black)
            @@ Pos(3, 3) :> Piece("Pawn", Black))

\* Black's d-pawn has moved d7-d5 past White's e-pawn.
WhiteCapturesBoard ==
    from_array(Pos(0, 0) :> Piece("King", White) @@ Pos(4, 4) :> Piece("Pawn", White)
            @@ Pos(7, 7) :> Piece("King", Black) @@ Pos(3, 4) :> Piece("Pawn", Black))

\* Black's d-pawn has moved d7-d5 and checks White's king on c4; White's
\* e-pawn can take it in passing.
WhiteCapturesCheckingPawnBoard ==
    from_array(Pos(2, 3) :> Piece("King", White) @@ Pos(4, 4) :> Piece("Pawn", White)
            @@ Pos(7, 7) :> Piece("King", Black) @@ Pos(3, 4) :> Piece("Pawn", Black))

\* Black's d-pawn has moved d7-d5; with it and White's e-pawn gone from the
\* fifth rank, Black's rook on h5 attacks White's king on a5.
WhiteCaptureUncoversBoard ==
    from_array(Pos(0, 4) :> Piece("King", White) @@ Pos(4, 4) :> Piece("Pawn", White)
            @@ Pos(7, 7) :> Piece("King", Black) @@ Pos(7, 4) :> Piece("Rook", Black)
            @@ Pos(3, 4) :> Piece("Pawn", Black))

EnPassantBoards ==
    {BlackCapturesBoard, BlackCapturesCheckingPawnBoard, BlackCaptureUncoversBoard,
     WhiteCapturesBoard, WhiteCapturesCheckingPawnBoard, WhiteCaptureUncoversBoard}

\* Either player has a pawn one step from promotion, by a push or a capture.
PromotionCaptureBoard ==
    from_array(Pos(7, 0) :> Piece("King", White) @@ Pos(6, 6) :> Piece("Pawn", White)
            @@ Pos(2, 0) :> Piece("Knight", White) @@ Pos(0, 7) :> Piece("King", Black)
            @@ Pos(7, 7) :> Piece("Rook", Black) @@ Pos(1, 1) :> Piece("Pawn", Black))

\* A white queen, a black rook and a black bishop with pieces of both colours
\* on their lines, near and far.
SliderBoard ==
    from_array(Pos(1, 0) :> Piece("King", White) @@ Pos(3, 3) :> Piece("Queen", White)
            @@ Pos(3, 5) :> Piece("Pawn", White) @@ Pos(6, 0) :> Piece("Rook", White)
            @@ Pos(7, 7) :> Piece("King", Black) @@ Pos(5, 5) :> Piece("Pawn", Black)
            @@ Pos(7, 3) :> Piece("Rook", Black) @@ Pos(0, 3) :> Piece("Rook", Black)
            @@ Pos(1, 6) :> Piece("Bishop", Black))

\* Pawns of both players on their start ranks with the two squares ahead
\* empty, with a piece of either colour one or two squares ahead, or pinned
\* to their king by a bishop, and a pawn of each player past its start rank.
DoublePushBoard ==
    from_array(Pos(4, 0) :> Piece("King", White) @@ Pos(0, 1) :> Piece("Pawn", White)
            @@ Pos(1, 1) :> Piece("Pawn", White) @@ Pos(1, 2) :> Piece("Knight", Black)
            @@ Pos(2, 1) :> Piece("Pawn", White) @@ Pos(2, 3) :> Piece("Knight", White)
            @@ Pos(3, 1) :> Piece("Pawn", White) @@ Pos(3, 3) :> Piece("Knight", Black)
            @@ Pos(5, 1) :> Piece("Pawn", White) @@ Pos(7, 3) :> Piece("Bishop", Black)
            @@ Pos(4, 2) :> Piece("Pawn", White)
            @@ Pos(4, 7) :> Piece("King", Black) @@ Pos(0, 6) :> Piece("Pawn", Black)
            @@ Pos(1, 6) :> Piece("Pawn", Black) @@ Pos(1, 5) :> Piece("Knight", White)
            @@ Pos(2, 6) :> Piece("Pawn", Black) @@ Pos(2, 4) :> Piece("Knight", Black)
            @@ Pos(5, 6) :> Piece("Pawn", Black) @@ Pos(7, 4) :> Piece("Bishop", White)
            @@ Pos(4, 5) :> Piece("Pawn", Black))

MovesBoards ==
    CastleBoards \cup EnPassantBoards
        \cup {PromotionCaptureBoard, SliderBoard, DoublePushBoard}

\* The en-passant targets a context for player on board b can hold: none, or
\* the square a pawn of the other player has just skipped in a double move.
Targets(b, player) ==
    LET start_rank == IF player = White THEN 6 ELSE 1
        skipped_rank == IF player = White THEN 5 ELSE 2
        landing_rank == IF player = White THEN 4 ELSE 3
    IN  {NoPos}
        \cup {Pos(file, skipped_rank) : file \in
                {f \in 0 .. 7 :
                    /\ get_piece(b, Pos(f, landing_rank))
                            = Piece("Pawn", other_player(player))
                    /\ get_piece(b, Pos(f, skipped_rank)) = NoPiece
                    /\ get_piece(b, Pos(f, start_rank)) = NoPiece}}

\* The squares of the movements given to leads_to_check: occupied and empty
\* squares of the boards.
MovesProbeSquares ==
    {Pos(4, 0), Pos(3, 0), Pos(2, 0), Pos(0, 0), Pos(4, 7), Pos(6, 7), Pos(7, 7),
     Pos(4, 3), Pos(4, 2), Pos(3, 3), Pos(3, 4), Pos(3, 5)}

\* The squares from which a pawn of player captures diagonally to square to.
CapturesTo(b, player, to) ==
    {from \in Squares :
        /\ to # NoPos
        /\ get_piece(b, from) = Piece("Pawn", player)
        /\ to \in {add(from, IF player = White THEN <<-1, 1>> ELSE <<-1, -1>>),
                   add(from, IF player = White THEN <<1, 1>> ELSE <<1, -1>>)}}

\* The moves given to do_move: every destination get_available_moves returns,
\* and every capture of a pawn to the en-passant target, with and without a
\* promotion type.
MovesRequests(g) ==
    UNION {{ChessMove(from, to, promotion) :
                to \in get_available_moves(g.board, g.active_player, from,
                                           move_context(g)).bitmap
                       \cup (IF from \in CapturesTo(g.board, g.active_player,
                                                    g.en_passant_target)
                             THEN {g.en_passant_target}
                             ELSE {}),
                promotion \in PromotionType \cup {"None"}} : from \in Squares}

MovesInit ==
    \E b \in MovesBoards : \E player \in PlayerColor :
    \E queenside \in BOOLEAN : \E kingside \in BOOLEAN :
    \E target \in Targets(b, player) :
    \E g \in {ChessGame(NotYetStarted, player, b, [pos \in Squares |-> {}],
                        [c \in PlayerColor |-> CastlingRights(queenside, kingside)],
                        target)} :
        /\ game_status = g.game_status
        /\ active_player = g.active_player
        /\ board = g.board
        /\ available_moves = g.available_moves
        /\ castling_rights = g.castling_rights
        /\ en_passant_target = g.en_passant_target
        /\ initial_board = b
        /\ fen_string = <<>>
        /\ iter = NoIterator
        /\ yielded = <<>>
        /\ last_call = "none"
        /\ last_move = NoMove
        /\ prev = g
        /\ moves = 0

MovesLeadsToCheck ==
    /\ last_call = "none"
    /\ \E from \in MovesProbeSquares : \E to \in MovesProbeSquares :
       \E r \in {leads_to_check(board, active_player, PieceMovement(from, to))} :
        /\ board' = r.board
        /\ last_call' = "leads_to_check"
        /\ last_move' = ChessMove(from, to, "None")
        /\ prev' = Game
        /\ UNCHANGED <<game_status, active_player, available_moves, castling_rights,
                       en_passant_target, initial_board, fen_string, iter, yielded,
                       moves>>

MovesGetAvailableMoves ==
    /\ last_call = "none"
    /\ \E pos \in Squares :
       \E r \in {get_available_moves(board, active_player, pos, move_context(Game))} :
        /\ board' = r.board
        /\ available_moves' = [available_moves EXCEPT ![pos] = r.bitmap]
        /\ last_call' = "get_available_moves"
        /\ last_move' = ChessMove(pos, NoPos, "None")
        /\ prev' = Game
        /\ UNCHANGED <<game_status, active_player, castling_rights,
                       en_passant_target, initial_board, fen_string, iter, yielded,
                       moves>>

MovesDoMove ==
    /\ last_call = "none"
    /\ \E chess_move \in MovesRequests(Game) :
       \E r \in {do_move(board, active_player, chess_move, move_context(Game))} :
        /\ board' = r.board
        /\ last_call' = IF r.error = "Ok" THEN "do_move" ELSE r.error
        /\ last_move' = chess_move
        /\ prev' = Game
        /\ UNCHANGED <<game_status, active_player, available_moves, castling_rights,
                       en_passant_target, initial_board, fen_string, iter, yielded,
                       moves>>

MovesNext == MovesLeadsToCheck \/ MovesGetAvailableMoves \/ MovesDoMove

MovesSpec == MovesInit /\ [][MovesNext]_vars

-----------------------------------------------------------------------------
(* The properties of castling, en passant and promotion: those of the game  *)
(* are checked in every reachable state of Spec, those of the functions of  *)
(* moves.rs after every call of MovesSpec.                                  *)

\* The player who made the last committed move, and the piece it moved.
Mover == prev.active_player

MovedPiece == get_piece(prev.board, last_move.piece_movement.from)

\* The rank of the king and the rooks of player at the start of a game.
HomeRank(player) == IF player = White THEN 0 ELSE 7

\* C11: leads_to_check, for every board, player and movement (the movement
\* from a square to itself and the movement from an empty square included),
\* and get_available_moves, for every origin and context (the en-passant
\* trial and the castling transit trials included), return with every square
\* of the board as it was before the call.
C11_QueriesKeepBoard ==
    last_call \in {"leads_to_check", "get_available_moves"} => board = prev.board

\* get_available_moves has run the en-passant trial for a pawn of the active
\* player and offers the target.
C11_Witness ==
    /\ last_call = "get_available_moves"
    /\ prev.en_passant_target /= NoPos
    /\ prev.en_passant_target \in available_moves[last_move.piece_movement.from]
    /\ MovedPiece = Piece("Pawn", Mover)

\* C12: after a committed move of a rook of the active player from the a-file
\* (resp. h-file) corner of that player's home rank, the player's queenside
\* (resp. kingside) castling right is false and the right of the other side
\* is as before the move.
C12_RookMoveForfeitsRight ==
    MoveCommitted /\ MovedPiece = Piece("Rook", Mover) =>
        /\ last_move.piece_movement.from = Pos(0, HomeRank(Mover)) =>
                /\ ~castling_rights[Mover].queenside
                /\ castling_rights[Mover].kingside = prev.castling_rights[Mover].kingside
        /\ last_move.piece_movement.from = Pos(7, HomeRank(Mover)) =>
                /\ ~castling_rights[Mover].kingside
                /\ castling_rights[Mover].queenside = prev.castling_rights[Mover].queenside

\* C13: after a committed move of the active player's king both castling
\* rights of that player are false and the opponent's are as before; when
\* the move is e->c (resp. e->g) on the mover's home rank, the piece of the
\* a-file (resp. h-file) corner of that rank stands on the d-file (resp.
\* f-file) square and the corner is empty.
C13_KingMoveForfeitsBoth ==
    MoveCommitted /\ MovedPiece = Piece("King", Mover) =>
        LET rank == HomeRank(Mover)
        IN  /\ castling_rights[Mover] = CastlingRights(FALSE, FALSE)
            /\ castling_rights[other_player(Mover)]
                    = prev.castling_rights[other_player(Mover)]
            /\ last_move.piece_movement = PieceMovement(Pos(4, rank), Pos(2, rank)) =>
                    /\ get_piece(board, Pos(3, rank)) = get_piece(prev.board, Pos(0, rank))
                    /\ get_piece(board, Pos(0, rank)) = NoPiece
            /\ last_move.piece_movement = PieceMovement(Pos(4, rank), Pos(6, rank)) =>
                    /\ get_piece(board, Pos(5, rank)) = get_piece(prev.board, Pos(7, rank))
                    /\ get_piece(board, Pos(7, rank)) = NoPiece

\* White, holding both rights, has castled on the queen's side.
C13_Witness ==
    /\ MoveCommitted
    /\ last_move = ChessMove(Pos(4, 0), Pos(2, 0), "None")
    /\ prev.castling_rights[White] = CastlingRights(TRUE, TRUE)
    /\ get_piece(board, Pos(2, 0)) = Piece("King", White)
    /\ get_piece(board, Pos(3, 0)) = Piece("Rook", White)

\* No call makes a castling right true, and none changes a right of the
\* player whose turn it is not.
RightsStep ==
    \A player \in PlayerColor :
        /\ castling_rights'[player].queenside => castling_rights[player].queenside
        /\ castling_rights'[player].kingside => castling_rights[player].kingside
        /\ player # active_player => castling_rights'[player] = castling_rights[player]

\* C14: all four castling rights are true after new(board); over any sequence
\* of calls a right that is false stays false, and a move changes no right of
\* the player who did not make it.
C14_RightsMonotone ==
    /\ \A player \in PlayerColor : castling_rights[player] = CastlingRights(TRUE, TRUE)
    /\ [][RightsStep]_vars

\* White has lost both rights by a king move, Black has moved since, and
\* White's rights are still false while Black's are still true.
C14_Witness ==
    /\ moves = 2
    /\ MoveCommitted
    /\ Mover = Black
    /\ castling_rights[White] = CastlingRights(FALSE, FALSE)
    /\ castling_rights[Black] = CastlingRights(TRUE, TRUE)

\* C15: after new(board) there is no en-passant target; after every committed
\* move the target is the square the moved piece skipped when that piece is a
\* pawn that went from its start rank (index 1 for White, 6 for Black) two
\* squares forward, and there is none otherwise, whatever the target was
\* before the move.
C15_TargetAfterMove ==
    /\ last_call = "new" => en_passant_target = NoPos
    /\ MoveCommitted =>
        LET from == last_move.piece_movement.from
            to == last_move.piece_movement.to
            forward == IF Mover = White THEN 1 ELSE -1
            start_rank == IF Mover = White THEN 1 ELSE 6
        IN  en_passant_target =
                IF /\ MovedPiece = Piece("Pawn", Mover)
                   /\ Rank(from) = start_rank
                   /\ File(to) = File(from)
                   /\ Rank(to) = Rank(from) + 2 * forward
                THEN Pos(File(from), Rank(from) + forward)
                ELSE NoPos

\* A double move has created a target and the next move has cleared it.
C15_Witness ==
    /\ MoveCommitted
    /\ prev.en_passant_target # NoPos
    /\ en_passant_target = NoPos

\* The square directly behind the en-passant target of context from the point
\* of view of player: one rank down for White, one rank up for Black.
BehindTarget(player, context) ==
    Pos(File(context.en_passant_target),
        Rank(context.en_passant_target) + (IF player = White THEN -1 ELSE 1))

\* The board after the pawn of player on from has captured en passant: the
\* pawn on the target of context, the square behind the target empty.
AfterEnPassant(b, player, from, context) ==
    set_piece(set_piece(set_piece(b, from, NoPiece),
                        context.en_passant_target, get_piece(b, from)),
              BehindTarget(player, context), NoPiece)

\* C16: when do_move moves a pawn of the active player to the en-passant
\* target of the context, the square directly behind the target from the
\* mover's point of view is empty afterwards, the pawn that stood there is
\* the captured piece of the move result, and the capturing pawn stands on
\* the target.
C16_EnPassantCapture ==
    /\ last_call = "do_move"
    /\ MovedPiece = Piece("Pawn", Mover)
    /\ prev.en_passant_target # NoPos
    /\ last_move.piece_movement.to = prev.en_passant_target
    =>  LET behind == BehindTarget(Mover, move_context(prev))
        IN  /\ get_piece(prev.board, behind) = Piece("Pawn", other_player(Mover))
            /\ get_piece(board, behind) = NoPiece
            /\ do_move(prev.board, Mover, last_move,
                       move_context(prev)).move_result.captured_piece
                    = get_piece(prev.board, behind)
            /\ get_piece(board, prev.en_passant_target) = Piece("Pawn", Mover)
            /\ get_piece(board, last_move.piece_movement.from) = NoPiece

\* A black pawn has captured to the target on the third rank: the white pawn
\* is gone from the fourth.
C16_Witness ==
    /\ last_call = "do_move"
    /\ Mover = Black
    /\ MovedPiece = Piece("Pawn", Black)
    /\ Rank(prev.en_passant_target) = 2
    /\ last_move.piece_movement.to = prev.en_passant_target
    /\ get_piece(prev.board, add(prev.en_passant_target, <<0, 1>>)) = Piece("Pawn", White)
    /\ get_piece(board, add(prev.en_passant_target, <<0, 1>>)) = NoPiece

\* C17: for a pawn of the active player with the en-passant target on one of
\* its diagonal-capture squares, get_available_moves returns the target
\* exactly when the board after the en-passant capture (the pawn on the
\* target, the captured pawn removed) does not have the active player's king
\* in check.
C17_EnPassantOffered ==
    /\ last_call = "get_available_moves"
    /\ prev.en_passant_target # NoPos
    /\ last_move.piece_movement.from
            \in CapturesTo(prev.board, Mover, prev.en_passant_target)
    =>  (prev.en_passant_target \in available_moves[last_move.piece_movement.from]
            <=> ~is_in_check(AfterEnPassant(prev.board, Mover,
                                            last_move.piece_movement.from,
                                            move_context(prev)), Mover))

\* The rank on which the pawns of player promote.
PromotionRank(player) == IF player = White THEN 7 ELSE 0

\* What the move of a piece is to return as far as promotion goes: a promotion
\* type is unexpected for a piece that is not a pawn and for a pawn that does
\* not land on the promotion rank of the player moving, and is missing for a
\* pawn that lands there without one.
PromotionVerdict(b, player, chess_move) ==
    LET moved_piece == get_piece(b, chess_move.piece_movement.from)
        lands == Rank(chess_move.piece_movement.to) = PromotionRank(player)
    IN  CASE moved_piece.piece_type # "Pawn" /\ chess_move.promotion # "None"
                -> "UnexpectedPromotionType"
          [] moved_piece.piece_type = "Pawn" /\ ~lands /\ chess_move.promotion # "None"
                -> "UnexpectedPromotionType"
          [] moved_piece.piece_type = "Pawn" /\ lands /\ chess_move.promotion = "None"
                -> "MissingPromotionType"
          [] OTHER -> "Ok"

C19_PromotionPlacesPiece ==
    /\ last_call = "do_move"
    /\ MovedPiece = Piece("Pawn", Mover)
    /\ Rank(last_move.piece_movement.to) = PromotionRank(Mover)
    =>  /\ last_move.promotion \in PromotionType
        /\ board = [prev.board EXCEPT
                        ![last_move.piece_movement.from] = NoPiece,
                        ![last_move.piece_movement.to] =
                            Piece(last_move.promotion, Mover)]

\* A pawn has captured onto the promotion rank and become a knight.
C19_Witness ==
    /\ last_call = "do_move"
    /\ MovedPiece = Piece("Pawn", Mover)
    /\ Rank(last_move.piece_movement.to) = PromotionRank(Mover)
    /\ get_piece(prev.board, last_move.piece_movement.to).player = other_player(Mover)
    /\ get_piece(board, last_move.piece_movement.to) = Piece("Knight", Mover)

\* The board with the piece of square from moved alone to square to.
MovedAlone(b, from, to) ==
    set_piece(set_piece(b, from, NoPiece), to, get_piece(b, from))

\* What castling of player on board b asks of one side: the right held, the
\* king not in check, a rook on the corner, the squares named empty, and the
\* king, moved alone to each square it crosses, not in check.
CastlingAllowed(b, player, right, corner, empty, crossed) ==
    /\ right
    /\ ~is_in_check(b, player)
    /\ get_piece(b, corner).piece_type = "Rook"
    /\ \A square \in empty : get_piece(b, square) = NoPiece
    /\ \A square \in crossed :
            ~is_in_check(MovedAlone(b, Pos(4, HomeRank(player)), square), player)

\* C20: for the king of the active player on e1 (e8 for Black),
\* get_available_moves returns the c-file (resp. g-file) square of the home
\* rank exactly when the player holds the queenside (resp. kingside) right,
\* the king is not in check, a rook stands on the a-file (resp. h-file)
\* corner, the b, c and d (resp. f and g) squares of the rank are empty, and
\* the king moved alone to d and to c (resp. f and g) is not in check; an
\* attack on the b-file square is not asked about.
C20_CastlingOffered ==
    /\ last_call = "get_available_moves"
    /\ last_move.piece_movement.from = Pos(4, HomeRank(Mover))
    /\ MovedPiece = Piece("King", Mover)
    =>  LET rank == HomeRank(Mover)
            bitmap == available_moves[Pos(4, rank)]
        IN  /\ Pos(2, rank) \in bitmap
                <=> CastlingAllowed(prev.board, Mover,
                                    prev.castling_rights[Mover].queenside, Pos(0, rank),
                                    {Pos(1, rank), Pos(2, rank), Pos(3, rank)},
                                    {Pos(3, rank), Pos(2, rank)})
            /\ Pos(6, rank) \in bitmap
                <=> CastlingAllowed(prev.board, Mover,
                                    prev.castling_rights[Mover].kingside, Pos(7, rank),
                                    {Pos(5, rank), Pos(6, rank)},
                                    {Pos(5, rank), Pos(6, rank)})

\* A black rook on the b-file attacks b1 and White's king on e1 is offered c1.
C20_Witness ==
    /\ last_call = "get_available_moves"
    /\ Mover = White
    /\ last_move.piece_movement.from = Pos(4, 0)
    /\ get_piece(prev.board, Pos(1, 4)) = Piece("Rook", Black)
    /\ Pos(2, 0) \in available_moves[Pos(4, 0)]

-----------------------------------------------------------------------------
(* is_in_check as a function of its arguments.  A behaviour of CheckSpec is *)
(* one call: board holds the board given, active_player the colour asked    *)
(* about, and last_call the answer.                                         *)

\* The squares the king of the boards of CheckSpec stands on: one in the
\* middle of the board and one in a corner.
CheckKingSquares == {Pos(3, 3), Pos(0, 7)}

\* The squares next to pos.
Adjacent(pos) ==
    {square \in Squares \ {pos} :
        /\ File(square) - File(pos) \in {-1, 0, 1}
        /\ Rank(square) - Rank(pos) \in {-1, 0, 1}}

\* The pieces of either colour.
Pieces == {Piece(piece_type, player) : piece_type \in PieceType, player \in PlayerColor}

\* A king, one more piece on another square, and nothing or a knight on a
\* square next to the king.
CheckBoard(king, king_pos, piece, pos, knight, next_to) ==
    set_piece(set_piece(set_piece(EMPTY_BOARD, pos, piece), next_to, knight),
              king_pos, king)

CheckInit ==
    \E king_pos \in CheckKingSquares : \E king_player \in PlayerColor :
    \E piece \in Pieces : \E pos \in Squares \ {king_pos} :
    \E knight \in {NoPiece} \cup {Piece("Knight", c) : c \in PlayerColor} :
    \E next_to \in Adjacent(king_pos) :
    \E b \in {CheckBoard(Piece("King", king_player), king_pos, piece, pos,
                         knight, next_to)} :
    \E player \in PlayerColor :
    \E g \in {ChessGame(NotYetStarted, player, b, [square \in Squares |-> {}],
                        [c \in PlayerColor |-> CastlingRights(FALSE, FALSE)], NoPos)} :
        /\ game_status = g.game_status
        /\ active_player = g.active_player
        /\ board = g.board
        /\ available_moves = g.available_moves
        /\ castling_rights = g.castling_rights
        /\ en_passant_target = g.en_passant_target
        /\ initial_board = b
        /\ fen_string = <<>>
        /\ iter = NoIterator
        /\ yielded = <<>>
        /\ last_call = "none"
        /\ last_move = NoMove
        /\ prev = g
        /\ moves = 0

CheckIsInCheck ==
    /\ last_call = "none"
    /\ last_call' = IF is_in_check(board, active_player) THEN "in_check" ELSE "not_in_check"
    /\ prev' = Game
    /\ UNCHANGED <<game_status, active_player, board, available_moves, castling_rights,
                   en_passant_target, initial_board, fen_string, iter, yielded,
                   last_move, moves>>

CheckNext == CheckIsInCheck

CheckSpec == CheckInit /\ [][CheckNext]_vars

\* The absolute value of an integer.
Abs(n) == IF n < 0 THEN -n ELSE n

\* -1, 0 or 1 as n is negative, zero or positive.
Sign(n) == IF n < 0 THEN -1 ELSE IF n > 0 THEN 1 ELSE 0

\* The squares strictly between two squares of one rank, file or diagonal.
Between(from, to) ==
    LET files == File(to) - File(from)
        ranks == Rank(to) - Rank(from)
        steps == IF Abs(files) > Abs(ranks) THEN Abs(files) ELSE Abs(ranks)
    IN  {Pos(File(from) + k * Sign(files), Rank(from) + k * Sign(ranks)) :
            k \in 1 .. steps - 1}

\* The piece on square from attacks square to on board b, as chess has it:
\* a pawn the two squares diagonally ahead of it, a knight a jump away, a king
\* the squares next to it, a rook, bishop or queen along its lines as far as
\* the first occupied square.
Attacks(b, from, to) ==
    LET piece == get_piece(b, from)
        files == File(to) - File(from)
        ranks == Rank(to) - Rank(from)
        straight == (files = 0) # (ranks = 0)
        diagonal == Abs(files) = Abs(ranks) /\ files # 0
        clear == \A square \in Between(from, to) : get_piece(b, square) = NoPiece
    IN  CASE piece.piece_type = "Pawn" ->
                Abs(files) = 1 /\ ranks = (IF piece.player = White THEN 1 ELSE -1)
          [] piece.piece_type = "Knight" -> {Abs(files), Abs(ranks)} = {1, 2}
          [] piece.piece_type = "King" -> to \in Adjacent(from)
          [] piece.piece_type = "Rook" -> straight /\ clear
          [] piece.piece_type = "Bishop" -> diagonal /\ clear
          [] piece.piece_type = "Queen" -> (straight \/ diagonal) /\ clear
          [] OTHER -> FALSE

\* Some king of player stands on a square a piece of the other player attacks.
KingAttacked(b, player) ==
    \E king \in {square \in Squares : get_piece(b, square) = Piece("King", player)} :
    \E from \in Squares :
        /\ get_piece(b, from).player = other_player(player)
        /\ Attacks(b, from, king)

\* C21: is_in_check(board, c) is true exactly when a king of colour c stands
\* on a square that a piece of the other colour attacks: a pawn from a square
\* diagonally in front of the king (seen from c's side), a knight from a
\* jump away, a king from a square next to it, a rook, bishop or queen along
\* one of its lines with every square between it and the king empty; it is
\* false when the board has no king of colour c.
C21_CheckIsAttack ==
    last_call \in {"in_check", "not_in_check"} =>
        /\ (last_call = "in_check") <=> KingAttacked(board, active_player)
        /\ find_kings(board, active_player) = {} => last_call = "not_in_check"

\* A black pawn diagonally in front of the white king gives check.
C21_Witness ==
    /\ last_call = "in_check"
    /\ active_player = White
    /\ \E king \in find_kings(board, White) :
            /\ add(king, <<1, 1>>) # NoPos
            /\ get_piece(board, add(king, <<1, 1>>)) = Piece("Pawn", Black)

-----------------------------------------------------------------------------
(* Board::from_fen_string as a function of its argument.  A behaviour of    *)
(* FenSpec is one call: fen_string holds the string given, last_call        *)
(* whether a board came back, and board the board that came back.           *)

\* The rank fields the strings of FenSpec are made of: well-formed ones, and
\* ones with too few or too many files, a digit 0 or 9, or another character.
FenFields ==
    {<<"8">>, <<"K", "7">>, <<"7", "k">>, <<"P", "6", "p">>, <<"4", "4">>,
     <<"r", "n", "b", "q", "k", "b", "n", "r">>, <<"2", "Q", "1", "N", "3">>,
     <<"0", "8">>, <<"8", "0">>, <<"9">>, <<"7">>, <<"8", "1">>, <<"8", "P">>,
     <<"x", "7">>, <<"K", " ", "6">>, <<>>}

\* The most rank fields a string of FenSpec has.
MaxFields == 9

\* The fields joined by '/'.
RECURSIVE Join(_)
Join(fields) ==
    IF fields = <<>>
    THEN <<>>
    ELSE IF Len(fields) = 1
    THEN fields[1]
    ELSE fields[1] \o <<"/">> \o Join(Tail(fields))

FenInit ==
    \E n \in 7 .. MaxFields : \E i \in 1 .. n : \E j \in 1 .. n :
    \E first \in FenFields : \E second \in FenFields :
    \E g \in {ChessGame(NotYetStarted, White, EMPTY_BOARD, [pos \in Squares |-> {}],
                        [c \in PlayerColor |-> CastlingRights(FALSE, FALSE)], NoPos)} :
        /\ fen_string = Join([k \in 1 .. n |->
                                IF k = i THEN first ELSE IF k = j THEN second ELSE <<"8">>])
        /\ iter = NoIterator
        /\ yielded = <<>>
        /\ game_status = g.game_status
        /\ active_player = g.active_player
        /\ board = g.board
        /\ available_moves = g.available_moves
        /\ castling_rights = g.castling_rights
        /\ en_passant_target = g.en_passant_target
        /\ initial_board = g.board
        /\ last_call = "none"
        /\ last_move = NoMove
        /\ prev = g
        /\ moves = 0

FenFromFenString ==
    /\ last_call = "none"
    /\ \E r \in {from_fen_string(fen_string)} :
        /\ last_call' = IF r.some THEN "Some" ELSE "None"
        /\ board' = IF r.some THEN r.board ELSE board
    /\ prev' = Game
    /\ UNCHANGED <<game_status, active_player, available_moves, castling_rights,
                   en_passant_target, initial_board, fen_string, iter, yielded,
                   last_move, moves>>

FenNext == FenFromFenString

FenSpec == FenInit /\ [][FenNext]_vars

\* The fields of a string: what stands between its '/' characters.
RECURSIVE SplitFields(_, _)
SplitFields(string, field) ==
    IF string = <<>>
    THEN <<field>>
    ELSE IF Head(string) = "/"
    THEN <<field>> \o SplitFields(Tail(string), <<>>)
    ELSE SplitFields(Tail(string), Append(field, Head(string)))

\* The squares a field describes from the a-file on: a piece for a letter, as
\* many empty squares as a digit says.
RECURSIVE FieldSquares(_)
FieldSquares(field) ==
    IF field = <<>>
    THEN <<>>
    ELSE (IF from_char(Head(field)) # NoPiece
          THEN <<from_char(Head(field))>>
          ELSE [k \in 1 .. to_digit(Head(field)) |-> NoPiece])
         \o FieldSquares(Tail(field))

\* C22: the board from_fen_string returns has the first field of the string
\* on rank 8 (index 7) and the last on rank 1 (index 0), each field filling
\* the files a to h from left to right.
C22_FirstFieldIsRank8 ==
    last_call = "Some" =>
        \A pos \in Squares :
            get_piece(board, pos)
                = FieldSquares(SplitFields(fen_string, <<>>)[8 - Rank(pos)])[File(pos) + 1]

\* The characters of a well-formed field, and the well-formed strings: eight
\* fields, each of piece letters and digits 1 to 8 that add up to 8 files.
FenLetters == {"P", "N", "B", "R", "Q", "K", "p", "n", "b", "r", "q", "k"}

FenDigits == {"1", "2", "3", "4", "5", "6", "7", "8"}

WellFormedField(field) ==
    /\ \A k \in 1 .. Len(field) : field[k] \in FenLetters \cup FenDigits
    /\ Len(FieldSquares(field)) = 8

WellFormed(string) ==
    LET fields == SplitFields(string, <<>>)
    IN  /\ Len(fields) = 8
        /\ \A k \in 1 .. 8 : WellFormedField(fields[k])

\* C23: from_fen_string returns a board exactly for the strings of eight
\* fields separated by '/', each made of piece letters and digits 1 to 8
\* only and adding up to 8 files; for every other string (the digits 0 and 9
\* included) it returns None.
C23_BoardOnlyIfWellFormed ==
    last_call \in {"Some", "None"} =>
        ((last_call = "Some") <=> WellFormed(fen_string))

-----------------------------------------------------------------------------
(* The properties of the moves get_available_moves returns. *)

\* C24: every square get_available_moves returns for a rook, bishop or queen
\* of the active player lies on one of the piece's lines with every square
\* strictly between the origin and it empty, and is empty or holds a piece of
\* the other player: no slider lands on or passes a piece of its own colour,
\* and none goes on past the first piece it can capture.
C24_SlidersStopAtPieces ==
    /\ last_call = "get_available_moves"
    /\ MovedPiece.player = Mover
    /\ MovedPiece.piece_type \in {"Rook", "Bishop", "Queen"}
    =>  \A to \in available_moves[last_move.piece_movement.from] :
            /\ Attacks(prev.board, last_move.piece_movement.from, to)
            /\ get_piece(prev.board, to).player # Mover

\* White's queen on d4 is offered d5 but not d6, where a white pawn stands,
\* and the capture on f6 but not g7 behind it.
C24_Witness ==
    /\ last_call = "get_available_moves"
    /\ last_move.piece_movement.from = Pos(3, 3)
    /\ MovedPiece = Piece("Queen", White)
    /\ Mover = White
    /\ get_piece(prev.board, Pos(3, 5)) = Piece("Pawn", White)
    /\ get_piece(prev.board, Pos(5, 5)) = Piece("Pawn", Black)
    /\ get_piece(prev.board, Pos(6, 6)) = NoPiece
    /\ {Pos(3, 4), Pos(5, 5)} \subseteq available_moves[Pos(3, 3)]
    /\ {Pos(3, 5), Pos(3, 6), Pos(6, 6)} \cap available_moves[Pos(3, 3)] = {}

\* C26: for a pawn of the active player, get_available_moves returns the
\* square two ranks ahead exactly when the pawn stands on its start rank
\* (index 1 for White, 6 for Black), the squares one and two ranks ahead are
\* both empty, and the move does not leave the mover's king in check; for a
\* pawn that is not on its start rank it never returns that square.
C26_DoubleMoveOffered ==
    /\ last_call = "get_available_moves"
    /\ MovedPiece = Piece("Pawn", Mover)
    =>  LET from == last_move.piece_movement.from
            forward == IF Mover = White THEN 1 ELSE -1
            one == add(from, <<0, forward>>)
            two == add(from, <<0, 2 * forward>>)
        IN  two # NoPos =>
                (two \in available_moves[from]
                    <=> /\ Rank(from) = (IF Mover = White THEN 1 ELSE 6)
                        /\ get_piece(prev.board, one) = NoPiece
                        /\ get_piece(prev.board, two) = NoPiece
                        /\ ~is_in_check(MovedAlone(prev.board, from, two), Mover))

\* Black's pawn on a7 is offered a5.
C26_Witness ==
    /\ last_call = "get_available_moves"
    /\ Mover = Black
    /\ MovedPiece = Piece("Pawn", Black)
    /\ last_move.piece_movement.from = Pos(0, 6)
    /\ Pos(0, 4) \in available_moves[Pos(0, 6)]

-----------------------------------------------------------------------------
(* BoardLineIterator as a state machine.  A behaviour of IterSpec makes one *)
(* iterator and calls next on it until it returns None, with a call of      *)
(* skip_line after some of the squares yielded: iter holds the iterator,    *)
(* yielded the squares it has yielded, each with its capture type and       *)
(* whether skip_line was called after it, and last_call the last call.      *)

\* The most calls of skip_line on one iterator.
MaxSkips == 2

\* The origins of the iterators: a corner, the middle, and squares near the
\* right and the upper edge.
IterOrigins == {Pos(0, 0), Pos(3, 3), Pos(6, 3), Pos(7, 6)}

\* The lists of lines of the iterators: those of the pieces, the list of the
\* test of the iterator, the empty list, and a list with a line of length 0
\* and a line that leaves the board at once.
IterLines ==
    {WHITE_PAWN_BOARD_LINES, BLACK_PAWN_BOARD_LINES, ROOK_BOARD_LINES, KNIGHT_BOARD_LINES,
     BISHOP_BOARD_LINES, QUEEN_BOARD_LINES, KING_BOARD_LINES,
     << BoardLine(<<0, 1>>, 3, "Normal"), BoardLine(<<1, 1>>, 3, "Normal") >>,
     << >>,
     << BoardLine(<<1, 0>>, 0, "Normal"), BoardLine(<<-8, 3>>, 2, "MoveOnly"),
        BoardLine(<<-1, -1>>, 2, "CaptureOnly") >>}

IterInit ==
    \E origin \in IterOrigins : \E lines \in IterLines :
    \E g \in {ChessGame(NotYetStarted, White, EMPTY_BOARD, [pos \in Squares |-> {}],
                        [c \in PlayerColor |-> CastlingRights(FALSE, FALSE)], NoPos)} :
        /\ iter = new_iterator(origin, lines)
        /\ yielded = <<>>
        /\ game_status = g.game_status
        /\ active_player = g.active_player
        /\ board = g.board
        /\ available_moves = g.available_moves
        /\ castling_rights = g.castling_rights
        /\ en_passant_target = g.en_passant_target
        /\ initial_board = g.board
        /\ fen_string = <<>>
        /\ last_call = "new"
        /\ last_move = NoMove
        /\ prev = g
        /\ moves = 0

\* The calls of skip_line made so far.
Skips == Cardinality({k \in DOMAIN yielded : yielded[k].skipped})

IterNextCall ==
    /\ last_call \in {"new", "next", "skip_line"}
    /\ \E r \in {next(iter.origin, iter.lines, iter.current_index,
                      iter.current_line_length)} :
        /\ iter' = [iter EXCEPT !.current_index = r.current_index,
                                !.current_line_length = r.current_line_length]
        /\ IF r.done
           THEN last_call' = "None" /\ UNCHANGED yielded
           ELSE /\ last_call' = "next"
                /\ yielded' = Append(yielded, [position |-> r.position,
                                               capture_type |-> r.capture_type,
                                               skipped |-> FALSE])
    /\ UNCHANGED <<game_status, active_player, board, available_moves, castling_rights,
                   en_passant_target, initial_board, fen_string, last_move, prev, moves>>

IterSkipLine ==
    /\ last_call = "next"
    /\ Skips < MaxSkips
    /\ iter' = skip_line(iter)
    /\ yielded' = [yielded EXCEPT ![Len(yielded)].skipped = TRUE]
    /\ last_call' = "skip_line"
    /\ UNCHANGED <<game_status, active_player, board, available_moves, castling_rights,
                   en_passant_target, initial_board, fen_string, last_move, prev, moves>>

IterNext == IterNextCall \/ IterSkipLine

IterSpec == IterInit /\ [][IterNext]_vars

\* The k-th square of a line from origin is on the board, and which it is.
OnBoard(origin, line, k) ==
    /\ File(origin) + k * line.offset[1] \in 0 .. 7
    /\ Rank(origin) + k * line.offset[2] \in 0 .. 7

LineSquare(origin, line, k) ==
    Pos(File(origin) + k * line.offset[1], Rank(origin) + k * line.offset[2])

\* The line and the step of the next square due when the k-th square of line
\* i is asked for: that one if the line is that long and the square is on the
\* board, else the first square of the next line that has one; the line is
\* Len(lines) + 1 when no square is due.
RECURSIVE Due(_, _, _, _)
Due(origin, lines, i, k) ==
    IF i > Len(lines)
    THEN <<i, k>>
    ELSE IF k <= lines[i].max_length /\ OnBoard(origin, lines[i], k)
    THEN <<i, k>>
    ELSE Due(origin, lines, i + 1, 1)

\* The yields are the squares due from the k-th square of line i on, in
\* order and with the capture type of their line, a skipped square being
\* followed by the first square of the next line; with the line and step
\* asked for after the last of them.
RECURSIVE Follows(_, _, _, _, _)
Follows(origin, lines, i, k, yields) ==
    IF yields = <<>>
    THEN [ok |-> TRUE, at |-> <<i, k>>]
    ELSE LET due == Due(origin, lines, i, k) IN
         IF due[1] > Len(lines)
         THEN [ok |-> FALSE, at |-> due]
         ELSE IF /\ Head(yields).position = LineSquare(origin, lines[due[1]], due[2])
                 /\ Head(yields).capture_type = lines[due[1]].capture_type
         THEN IF Head(yields).skipped
              THEN Follows(origin, lines, due[1] + 1, 1, Tail(yields))
              ELSE Follows(origin, lines, due[1], due[2] + 1, Tail(yields))
         ELSE [ok |-> FALSE, at |-> due]

\* The sum of the lines' max_length.
RECURSIVE SumOfLengths(_)
SumOfLengths(lines) ==
    IF lines = <<>> THEN 0 ELSE Head(lines).max_length + SumOfLengths(Tail(lines))

\* C25: for every origin and list of lines the iterator yields, line by line
\* in the order of the list, the squares origin + k * offset for k = 1, 2, ..
\* as far as the line's max_length and the board go, each with the capture
\* type of its line and none of them off the board; after skip_line it goes
\* on with the next line, whatever was left of the line of the square just
\* yielded; it returns None only when no square is due, and has yielded at
\* most the sum of the lines' max_length squares.
C25_IteratorYields ==
    last_call \in {"new", "next", "skip_line", "None"} /\ iter # NoIterator =>
        \E followed \in {Follows(iter.origin, iter.lines, 1, 1, yielded)} :
            /\ followed.ok
            /\ \A k \in DOMAIN yielded : yielded[k].position \in Squares
            /\ Len(yielded) <= SumOfLengths(iter.lines)
            /\ last_call = "None" =>
                    Due(iter.origin, iter.lines, followed.at[1], followed.at[2])[1]
                        > Len(iter.lines)

\* The iterator of the test, from g4 with a line up and a line up to the
\* right of three squares each, has returned None after a skip_line on the
\* first line and the one square of the second line that is on the board.
C25_Witness ==
    /\ last_call = "None"
    /\ iter.origin = Pos(6, 3)
    /\ Len(iter.lines) = 2
    /\ Len(yielded) = 3
    /\ yielded[2].skipped
    /\ yielded[3].position = Pos(7, 4)

-----------------------------------------------------------------------------
(* The properties of the positions a game goes through. *)

\* C27: in every state of a game, whatever board it was made from, every
\* cached destination of a king is a square next to the king, or the square
\* two files to the left or right of it on its rank with the king standing
\* on its home square (e1 for White, e8 for Black).
C27_KingDestinations ==
    \A pos \in Squares : \A to \in available_moves[pos] :
        get_piece(board, pos).piece_type = "King" =>
            \/ to \in Adjacent(pos)
            \/ /\ pos = Pos(4, HomeRank(get_piece(board, pos).player))
               /\ Rank(to) = Rank(pos)
               /\ Abs(File(to) - File(pos)) = 2

\* C28: in a game made from a board with one king of each colour the board
\* keeps one king of each colour, and no cached destination is the square
\* of the other player's king.
C28_KingsStay ==
    OneKingPerColour(initial_board) =>
        /\ OneKingPerColour(board)
        /\ \A pos \in Squares : \A to \in available_moves[pos] :
                get_piece(board, to) # Piece("King", other_player(active_player))

\* C29: while the status is NotYetStarted or Normal some square has a cached
\* destination, whatever board the game was made from.
C29_MoveWhileNotEnded ==
    ~Terminal => \E pos \in Squares : available_moves[pos] # {}

\* The pawns of board b that stand on their last rank.
LastRankPawns(b) ==
    {pos \in Squares :
        \E player \in PlayerColor :
            /\ get_piece(b, pos) = Piece("Pawn", player)
            /\ Rank(pos) = PromotionRank(player)}

\* C30: in a game made from a board with no white pawn on rank index 7 and no
\* black pawn on rank index 0, no state has such a pawn, and a committed move
\* of a pawn to its last rank leaves a knight, bishop, rook or queen of the
\* mover's colour on the destination.
C30_NoPawnOnLastRank ==
    LastRankPawns(initial_board) = {} =>
        /\ LastRankPawns(board) = {}
        /\ MoveCommitted
                /\ MovedPiece = Piece("Pawn", Mover)
                /\ Rank(last_move.piece_movement.to) = PromotionRank(Mover)
            => get_piece(board, last_move.piece_movement.to)
                    \in {Piece(piece_type, Mover) :
                            piece_type \in {"Knight", "Bishop", "Rook", "Queen"}}

\* Both players have moved a pawn to its last rank.
C30_Witness ==
    /\ moves = 2
    /\ MoveCommitted
    /\ MovedPiece = Piece("Pawn", Black)
    /\ Rank(last_move.piece_movement.to) = 0
    /\ get_piece(prev.board, Pos(6, 6)) = NoPiece
    /\ get_piece(initial_board, Pos(6, 6)) = Piece("Pawn", White)

====
